---- MODULE Spec2Model ----
(***************************************************************************)
(* Relationship chart of wildermyth_renderer (relationship_chart.py):      *)
(* nodes with parent/child edges and typed relationships, the structural   *)
(* normalizer (remove_redundant_phantoms, remove_dead_edges,               *)
(* ensure_everything_mutual, postprocess), the relationship resolver       *)
(* (clean_relationships) and the filter engine (filter_relationships,      *)
(* trim, apply_filter_params) with their inplace / copy modes.             *)
(*                                                                         *)
(* Node ids are integers: 1..NumReal are real characters,                  *)
(* NumReal+1..NumReal+NumPhantom are phantom parents, and 0 is an id that  *)
(* is never a node of the chart (the target of a dangling reference).      *)
(* A node's label and character_data are not modelled: no chart algorithm  *)
(* reads them.  relationships is a defaultdict(set): a missing key and an  *)
(* empty target set are the same value here.  filter_relationships leaves  *)
(* a plain dict in its place; the KeyError that a later lookup of a        *)
(* missing key in such a dict would raise is not modelled.                 *)
(***************************************************************************)
EXTENDS Integers, Sequences, FiniteSets, TLC

VARIABLES heap, ret, prev, calls, exc

vars == <<heap, ret, prev, calls, exc>>

(***************************************************************************)
(* Bounds of the model                                                     *)
(***************************************************************************)
NumReal == 3
NumPhantom == 2
MaxDefects == 1
MaxCalls == 2
NumFresh == 3

Reals == 1..NumReal
Phantoms == (NumReal + 1)..(NumReal + NumPhantom)
NodeIds == Reals \cup Phantoms
Missing == 0
AllIds == NodeIds \cup {Missing}
\* ids that create_phantom_node may give to a new phantom
FreshIds == (NumReal + NumPhantom + 1)..(NumReal + NumPhantom + NumFresh)

(***************************************************************************)
(* params.py: RelationshipStatus and relationship types                    *)
(***************************************************************************)
PAST == 0
LOCKED == 1
RelationshipStatus == {PAST, LOCKED}
RelTypes == {"rival", "lover"}
Wildcard == "*"
RelKeys == RelationshipStatus \X RelTypes

NoException == "none"
MissingNodeError == "MissingNodeError"
KeyError == "KeyError"
AssertionError == "AssertionError"

(***************************************************************************)
(* CharacterNode and RelationshipChart                                     *)
(***************************************************************************)
NoRelationships == [k \in RelKeys |-> {}]

CharacterNode(phantom) ==
    [is_phantom |-> phantom, child_ids |-> {}, parent_ids |-> {},
     relationships |-> NoRelationships]

\* nodes: Dict[str, CharacterNode]; order is the dict's insertion order
RelationshipChart(order, nodes) == [order |-> order, nodes |-> nodes]

Ids(g) == DOMAIN g.nodes

\* the outcome of a call: the chart as the call left it, and the exception raised
Return(g) == [g |-> g, exc |-> NoException]
Raise(g, e) == [g |-> g, exc |-> e]

\* F applied to the value of v, which is computed once
With(v, F(_)) == CHOOSE out \in {F(x) : x \in {v}} : TRUE

\* the statement after a call: F continues on the chart the call left, unless
\* the call raised, and then the exception propagates
Then(r, F(_)) == With(r, LAMBDA x : IF x.exc # NoException THEN x ELSE F(x.g))

\* self.nodes.pop(node_id)
pop(g, node_id) ==
    [order |-> SelectSeq(g.order, LAMBDA i : i # node_id),
     nodes |-> [i \in Ids(g) \ {node_id} |-> g.nodes[i]]]

\* remove_relationship that discards the entry on the first node only
remove_relationship_one_sided(g, first_id, second_id, key) ==
    IF first_id \notin Ids(g) \/ second_id \notin Ids(g)
    THEN Raise(g, MissingNodeError)
    ELSE Return([g EXCEPT !.nodes[first_id].relationships[key] = @ \ {second_id}])

\* remove_relationship: both ends are looked up, then the entry is discarded on both
remove_relationship(g, first_id, second_id, key) ==
    IF first_id \notin Ids(g) \/ second_id \notin Ids(g)
    THEN Raise(g, MissingNodeError)
    ELSE Return([g EXCEPT !.nodes[first_id].relationships[key] = @ \ {second_id},
                          !.nodes[second_id].relationships[key] = @ \ {first_id}])

\* add_relationship that records the relationship on the first node before it
\* looks the second node up
add_relationship_eager(g, first_id, second_id, key) ==
    IF first_id = second_id THEN Raise(g, AssertionError)
    ELSE IF first_id \notin Ids(g) THEN Raise(g, MissingNodeError)
    ELSE With([g EXCEPT !.nodes[first_id].relationships[key] = @ \cup {second_id}],
              LAMBDA g1 :
                IF second_id \notin Ids(g) THEN Raise(g1, MissingNodeError)
                ELSE Return([g1 EXCEPT !.nodes[second_id].relationships[key]
                                         = @ \cup {first_id}]))

\* add_relationship
add_relationship(g, first_id, second_id, key) ==
    IF first_id = second_id THEN Raise(g, AssertionError)
    ELSE IF first_id \notin Ids(g) \/ second_id \notin Ids(g)
    THEN Raise(g, MissingNodeError)
    ELSE Return([g EXCEPT !.nodes[first_id].relationships[key] = @ \cup {second_id},
                          !.nodes[second_id].relationships[key] = @ \cup {first_id}])

\* remove_node, lines 134-135: the node leaves the parent_ids of its children
discard_from_children(g, node_id) ==
    [g EXCEPT !.nodes = [i \in Ids(g) |->
        IF i \in g.nodes[node_id].child_ids
        THEN [g.nodes[i] EXCEPT !.parent_ids = @ \ {node_id}]
        ELSE g.nodes[i]]]

\* lines 136-137: the node leaves the child_ids of its parents
discard_from_parents(g, node_id) ==
    [g EXCEPT !.nodes = [i \in Ids(g) |->
        IF i \in g.nodes[node_id].parent_ids
        THEN [g.nodes[i] EXCEPT !.child_ids = @ \ {node_id}]
        ELSE g.nodes[i]]]

\* lines 138-139: every relationship entry that targets the node is removed
discard_from_relationships(g, node_id) ==
    [g EXCEPT !.nodes = [i \in Ids(g) |->
        [g.nodes[i] EXCEPT !.relationships =
            [k \in RelKeys |-> g.nodes[i].relationships[k] \ {node_id}]]]]

\* remove_node that never clears the references to the node
remove_node_keep_relations(g, node_id, clear_relations) ==
    IF node_id \notin Ids(g) THEN Raise(g, MissingNodeError)
    ELSE Return(pop(g, node_id))

\* remove_node: with clear_relations the node is first taken out of its children's
\* parent_ids, its parents' child_ids and every relationship entry that targets it
remove_node(g, node_id, clear_relations) ==
    IF node_id \notin Ids(g) THEN Raise(g, MissingNodeError)
    ELSE IF ~clear_relations THEN Return(pop(g, node_id))
    ELSE IF ~(g.nodes[node_id].child_ids \subseteq Ids(g)) THEN Raise(g, KeyError)
    ELSE With(discard_from_children(g, node_id), LAMBDA g1 :
           IF ~(g1.nodes[node_id].parent_ids \subseteq Ids(g1)) THEN Raise(g1, KeyError)
           ELSE With(discard_from_parents(g1, node_id), LAMBDA g2 :
                  With(discard_from_relationships(g2, node_id), LAMBDA g3 :
                    Return(pop(g3, node_id)))))

\* the list a set yields when iterated, under the iteration order `ord` (a
\* sequence without repetition that covers the set)
ListOf(S, ord) == SelectSeq(ord, LAMBDA i : i \in S)

\* add_child, the loop over the child's other parents (handle_phantoms): a
\* phantom parent all of whose children the new parent has is removed
RECURSIVE handle_phantoms_loop(_, _, _)
handle_phantoms_loop(g, parent_id, others) ==
    IF others = <<>> THEN Return(g)
    ELSE IF Head(others) # parent_id
            /\ g.nodes[Head(others)].is_phantom
            /\ g.nodes[Head(others)].child_ids \subseteq g.nodes[parent_id].child_ids
    THEN Then(remove_node(g, Head(others), TRUE), LAMBDA g1 :
           handle_phantoms_loop(g1, parent_id, Tail(others)))
    ELSE handle_phantoms_loop(g, parent_id, Tail(others))

\* add_child that leaves the child's parent_ids alone
add_child_one_sided(g, parent_id, child_id, handle_phantoms, ord) ==
    IF parent_id = child_id THEN Raise(g, AssertionError)
    ELSE IF parent_id \notin Ids(g) \/ child_id \notin Ids(g)
    THEN Raise(g, MissingNodeError)
    ELSE Return([g EXCEPT !.nodes[parent_id].child_ids = @ \cup {child_id}])

\* add_child; `ord` is the order in which child.parent_ids is iterated
add_child(g, parent_id, child_id, handle_phantoms, ord) ==
    IF parent_id = child_id THEN Raise(g, AssertionError)
    ELSE IF parent_id \notin Ids(g) \/ child_id \notin Ids(g)
    THEN Raise(g, MissingNodeError)
    ELSE With([g EXCEPT !.nodes[parent_id].child_ids = @ \cup {child_id},
                        !.nodes[child_id].parent_ids = @ \cup {parent_id}], LAMBDA g1 :
           IF ~handle_phantoms THEN Return(g1)
           ELSE IF ~(g1.nodes[child_id].parent_ids \subseteq Ids(g1))
           THEN Raise(g1, KeyError)
           ELSE handle_phantoms_loop(g1, parent_id,
                                     ListOf(g1.nodes[child_id].parent_ids, ord)))

\* the ids in increasing order
RECURSIVE Ascending(_)
Ascending(S) ==
    IF S = {} THEN <<>>
    ELSE With(CHOOSE x \in S : \A y \in S : x <= y, LAMBDA m :
           <<m>> \o Ascending(S \ {m}))

PhantomsOf(g) == {n \in Ids(g) : g.nodes[n].is_phantom}

\* all the sequences that list each element of S once
RECURSIVE Orderings(_)
Orderings(S) ==
    IF S = {} THEN {<<>>}
    ELSE UNION {{<<x>> \o p : p \in Orderings(S \ {x})} : x \in S}

\* the orders in which a set of node ids may be iterated: the phantoms in any
\* order; the place of a real node in the order plays no part, as the loops
\* that depend on the order act on phantoms only
IterationOrders(g) ==
    {p \o Ascending(Ids(g) \ PhantomsOf(g)) : p \in Orderings(PhantomsOf(g))}

\* the ids some node of g names as parent, child or relationship target
ReferencedIds(g) ==
    UNION {g.nodes[n].parent_ids \cup g.nodes[n].child_ids
             \cup UNION {g.nodes[n].relationships[k] : k \in RelKeys} : n \in Ids(g)}

\* f"phantom_{uuid.uuid4()}": an id that no node has and no node names
NewPhantomIds(g) ==
    With(FreshIds \ (Ids(g) \cup ReferencedIds(g)), LAMBDA unused :
      {id \in unused : \A other \in unused : id <= other})

\* add_node of a node that has no edges
add_node(g, node_id) ==
    IF node_id \in Ids(g) THEN Raise(g, AssertionError)
    ELSE Return([order |-> Append(g.order, node_id),
                 nodes |-> (node_id :> CharacterNode(FALSE)) @@ g.nodes])

\* create_phantom_node
create_phantom_node(g, phantom_id) ==
    [order |-> Append(g.order, phantom_id),
     nodes |-> (phantom_id :> CharacterNode(TRUE)) @@ g.nodes]

\* add_sibling that attaches the first node only to the new phantom
add_sibling_first_only(g, first_id, second_id, phantom_id, ord) ==
    IF first_id = second_id THEN Raise(g, AssertionError)
    ELSE IF first_id \notin Ids(g) \/ second_id \notin Ids(g)
    THEN Raise(g, MissingNodeError)
    ELSE IF g.nodes[first_id].parent_ids \cap g.nodes[second_id].parent_ids # {}
    THEN Return(g)
    ELSE With(create_phantom_node(g, phantom_id), LAMBDA g1 :
           add_child(g1, phantom_id, first_id, TRUE, ord))

\* add_sibling; phantom_id is the id of the phantom it may create, and ord the
\* order in which add_child iterates the parents of a child
add_sibling(g, first_id, second_id, phantom_id, ord) ==
    IF first_id = second_id THEN Raise(g, AssertionError)
    ELSE IF first_id \notin Ids(g) \/ second_id \notin Ids(g)
    THEN Raise(g, MissingNodeError)
    ELSE IF g.nodes[first_id].parent_ids \cap g.nodes[second_id].parent_ids # {}
    THEN Return(g)
    ELSE With(create_phantom_node(g, phantom_id), LAMBDA g1 :
           Then(add_child(g1, phantom_id, first_id, TRUE, ord), LAMBDA g2 :
             add_child(g2, phantom_id, second_id, TRUE, ord)))

\* the pass without lines 224-225: no sibling becomes a child of the node
merge_siblings_skipped(g, node_id, siblings) == Return(g)

\* remove_redundant_phantoms, lines 224-225: the common phantom siblings become
\* children of the node (add_child without phantom handling)
RECURSIVE merge_siblings(_, _, _)
merge_siblings(g, node_id, siblings) ==
    IF siblings = <<>> THEN Return(g)
    ELSE Then(add_child(g, node_id, Head(siblings), FALSE, <<>>), LAMBDA g1 :
           merge_siblings(g1, node_id, Tail(siblings)))

\* lines 215-218: the children of the other phantom parents of `child`
phantom_siblings(g, node_id, child) ==
    UNION {g.nodes[p].child_ids :
             p \in {q \in g.nodes[child].parent_ids :
                      g.nodes[q].is_phantom /\ q # node_id}}

\* lines 213-222: the intersection over all children of the node
common_phantom_siblings(g, node_id) ==
    {s \in UNION {g.nodes[n].child_ids : n \in Ids(g)} :
        \A c \in g.nodes[node_id].child_ids : s \in phantom_siblings(g, node_id, c)}

\* remove_redundant_phantoms, lines 199-225: one node of the loop.  v holds the
\* chart, the exception raised and remove_ids; first_child[id] is children[0],
\* the first element the node's child_ids set yields.
visit_phantom(v, id, first_child) ==
    IF v.exc # NoException THEN v
    ELSE IF ~v.g.nodes[id].is_phantom THEN v
    ELSE IF v.g.nodes[id].child_ids = {}
    THEN [v EXCEPT !.remove_ids = Append(@, id)]
    ELSE IF ~(v.g.nodes[id].child_ids \subseteq Ids(v.g)) THEN [v EXCEPT !.exc = KeyError]
    ELSE IF ~(v.g.nodes[first_child[id]].parent_ids \subseteq Ids(v.g))
    THEN [v EXCEPT !.exc = KeyError]
    ELSE IF \E other \in v.g.nodes[first_child[id]].parent_ids :
               other # id /\ v.g.nodes[id].child_ids \subseteq v.g.nodes[other].child_ids
    THEN [v EXCEPT !.remove_ids = Append(@, id)]
    ELSE IF \E c \in v.g.nodes[id].child_ids : ~(v.g.nodes[c].parent_ids \subseteq Ids(v.g))
    THEN [v EXCEPT !.exc = KeyError]
    ELSE With(merge_siblings(v.g, id, Ascending(common_phantom_siblings(v.g, id))),
              LAMBDA r : [v EXCEPT !.g = r.g, !.exc = r.exc])

\* lines 198-225: the nodes are visited in the order of the dict
RECURSIVE visit_phantoms(_, _, _)
visit_phantoms(v, todo, first_child) ==
    IF todo = <<>> THEN v
    ELSE With(visit_phantom(v, Head(todo), first_child), LAMBDA v1 :
           visit_phantoms(v1, Tail(todo), first_child))

\* lines 227-228
RECURSIVE remove_all(_, _, _)
remove_all(g, remove_ids, clear_relations) ==
    IF remove_ids = <<>> THEN Return(g)
    ELSE Then(remove_node(g, Head(remove_ids), clear_relations), LAMBDA g1 :
           remove_all(g1, Tail(remove_ids), clear_relations))

remove_redundant_phantoms(g, clear_relations, first_child) ==
    With(visit_phantoms([g |-> g, exc |-> NoException, remove_ids |-> <<>>],
                        g.order, first_child),
         LAMBDA v : IF v.exc # NoException THEN Raise(v.g, v.exc)
                    ELSE remove_all(v.g, v.remove_ids, clear_relations))

\* the choices of children[0] the nodes of g allow: any child of a phantom may
\* be the first one its child_ids set yields
RECURSIVE FirstChildrenOf(_, _)
FirstChildrenOf(g, S) ==
    IF S = {} THEN {[n \in {} |-> Missing]}
    ELSE With(CHOOSE x \in S : TRUE, LAMBDA n :
           {(n :> c) @@ f : c \in g.nodes[n].child_ids, f \in FirstChildrenOf(g, S \ {n})})

FirstChildren(g) ==
    FirstChildrenOf(g, {n \in Ids(g) : g.nodes[n].is_phantom /\ g.nodes[n].child_ids # {}})

\* remove_dead_edges
remove_dead_edges(g) ==
    [g EXCEPT !.nodes = [i \in Ids(g) |->
        [g.nodes[i] EXCEPT
            !.parent_ids = @ \cap Ids(g),
            !.child_ids = @ \cap Ids(g),
            !.relationships = [k \in RelKeys |-> g.nodes[i].relationships[k] \cap Ids(g)]]]]

\* ensure_everything_mutual, lines 247-248: the node joins its children's parent_ids
add_to_children(g, id) ==
    [g EXCEPT !.nodes = [i \in Ids(g) |->
        IF i \in g.nodes[id].child_ids
        THEN [g.nodes[i] EXCEPT !.parent_ids = @ \cup {id}]
        ELSE g.nodes[i]]]

\* lines 249-250: the node joins its parents' child_ids
add_to_parents(g, id) ==
    [g EXCEPT !.nodes = [i \in Ids(g) |->
        IF i \in g.nodes[id].parent_ids
        THEN [g.nodes[i] EXCEPT !.child_ids = @ \cup {id}]
        ELSE g.nodes[i]]]

\* lines 252-253: the node joins the relationships of each of its targets;
\* get_node raises for a target that is no node
add_to_targets(g, id) ==
    IF \E k \in RelKeys : ~(g.nodes[id].relationships[k] \subseteq Ids(g))
    THEN Raise(g, MissingNodeError)
    ELSE Return([g EXCEPT !.nodes = [i \in Ids(g) |->
            [g.nodes[i] EXCEPT !.relationships =
                [k \in RelKeys |->
                    IF i \in g.nodes[id].relationships[k]
                    THEN g.nodes[i].relationships[k] \cup {id}
                    ELSE g.nodes[i].relationships[k]]]]])

\* make_mutual without the loop over the node's parents (lines 249-250)
make_mutual_children_only(g, id) ==
    IF ~(g.nodes[id].child_ids \subseteq Ids(g)) THEN Raise(g, KeyError)
    ELSE With(add_to_children(g, id), LAMBDA g1 : add_to_targets(g1, id))

\* ensure_everything_mutual, one node of the loop
make_mutual(g, id) ==
    IF ~(g.nodes[id].child_ids \subseteq Ids(g)) THEN Raise(g, KeyError)
    ELSE With(add_to_children(g, id), LAMBDA g1 :
           IF ~(g1.nodes[id].parent_ids \subseteq Ids(g1)) THEN Raise(g1, KeyError)
           ELSE With(add_to_parents(g1, id), LAMBDA g2 : add_to_targets(g2, id)))

RECURSIVE mutual_loop(_, _)
mutual_loop(g, todo) ==
    IF todo = <<>> THEN Return(g)
    ELSE Then(make_mutual(g, Head(todo)), LAMBDA g1 : mutual_loop(g1, Tail(todo)))

ensure_everything_mutual(g) == mutual_loop(g, g.order)

\* postprocess with the passes in another order: the phantoms are removed
\* (clear_relations=False) after the sweep instead of before it
postprocess_phantoms_last(g, first_child) ==
    With(remove_dead_edges(g), LAMBDA g1 :
      Then(ensure_everything_mutual(g1), LAMBDA g2 :
        remove_redundant_phantoms(g2, FALSE, CHOOSE f \in FirstChildren(g2) : TRUE)))

\* postprocess
postprocess(g, first_child) ==
    Then(remove_redundant_phantoms(g, FALSE, first_child), LAMBDA g1 :
      With(remove_dead_edges(g1), LAMBDA g2 : ensure_everything_mutual(g2)))

\* iter_relationships() with no argument: the (source, target, status, type)
\* tuples in the order the generator yields them.  The keys of a node's dict
\* and the ids of a target set come in KeyOrder and in increasing order; what
\* clean_relationships removes does not depend on that order.
KeyOrder == <<<<PAST, "rival">>, <<PAST, "lover">>, <<LOCKED, "rival">>, <<LOCKED, "lover">>>>

RECURSIVE Concat(_)
Concat(ss) == IF ss = <<>> THEN <<>> ELSE Head(ss) \o Concat(Tail(ss))

\* the tuples one key of one source node yields
tuples_of(source, key, targets) ==
    [t \in 1..Len(targets) |->
        [source |-> source, target |-> targets[t],
         rel_status |-> key[1], rel_type |-> key[2]]]

iter_relationships(g) ==
    Concat([n \in 1..Len(g.order) |->
      Concat([j \in 1..Len(KeyOrder) |->
        tuples_of(g.order[n], KeyOrder[j],
                  Ascending(g.nodes[g.order[n]].relationships[KeyOrder[j]]))])])

\* status_dict_key = (*sorted((rel_source.id, rel_target.id)), rel_type)
status_dict_key(t) ==
    IF t.source <= t.target THEN <<t.source, t.target, t.rel_type>>
    ELSE <<t.target, t.source, t.rel_type>>

\* the loop body marking the better of two differing statuses for removal
scan_relationship_drops_better(g, s, t) ==
    IF s.exc # NoException THEN s
    ELSE IF t.target \notin Ids(g) THEN [s EXCEPT !.exc = MissingNodeError]
    ELSE IF status_dict_key(t) \notin DOMAIN s.rel_status_dict
    THEN [s EXCEPT !.rel_status_dict = (status_dict_key(t) :> t.rel_status) @@ @]
    ELSE With(s.rel_status_dict[status_dict_key(t)], LAMBDA prev_status :
           IF t.rel_status = prev_status THEN s
           ELSE With(IF t.rel_status < prev_status
                     THEN <<t.rel_status, prev_status>>
                     ELSE <<prev_status, t.rel_status>>, LAMBDA sorted :
                  [s EXCEPT !.rel_status_dict = (status_dict_key(t) :> sorted[1]) @@ @,
                            !.remove_relationships =
                                Append(@, <<t.source, t.target, <<sorted[2], t.rel_type>>>>)]))

\* lines 387-394, one tuple of the loop: s holds rel_status_dict (the best
\* status seen so far for a key), remove_relationships and the exception raised.
\* A tuple whose status differs from the recorded one marks the worse of the two
\* for removal.  get_node(target) raises for a target that is no node.
scan_relationship(g, s, t) ==
    IF s.exc # NoException THEN s
    ELSE IF t.target \notin Ids(g) THEN [s EXCEPT !.exc = MissingNodeError]
    ELSE IF status_dict_key(t) \notin DOMAIN s.rel_status_dict
    THEN [s EXCEPT !.rel_status_dict = (status_dict_key(t) :> t.rel_status) @@ @]
    ELSE With(s.rel_status_dict[status_dict_key(t)], LAMBDA prev_status :
           IF t.rel_status = prev_status THEN s
           ELSE With(IF t.rel_status < prev_status
                     THEN <<t.rel_status, prev_status>>
                     ELSE <<prev_status, t.rel_status>>, LAMBDA sorted :
                  [s EXCEPT !.rel_status_dict = (status_dict_key(t) :> sorted[2]) @@ @,
                            !.remove_relationships =
                                Append(@, <<t.source, t.target, <<sorted[1], t.rel_type>>>>)]))

RECURSIVE scan_relationships(_, _, _, _)
scan_relationships(g, s, tuples, i) ==
    IF i > Len(tuples) THEN s
    ELSE With(scan_relationship(g, s, tuples[i]), LAMBDA s1 :
           scan_relationships(g, s1, tuples, i + 1))

\* lines 396-397
RECURSIVE remove_relationships_loop(_, _, _)
remove_relationships_loop(g, todo, i) ==
    IF i > Len(todo) THEN Return(g)
    ELSE Then(remove_relationship(g, todo[i][1], todo[i][2], todo[i][3]), LAMBDA g1 :
           remove_relationships_loop(g1, todo, i + 1))

\* clean_relationships(inplace=True)
clean_relationships(g) ==
    With(iter_relationships(g), LAMBDA tuples :
      With(scan_relationships(g, [rel_status_dict |-> [k \in {} |-> PAST],
                                  remove_relationships |-> <<>>,
                                  exc |-> NoException], tuples, 1), LAMBDA s :
        IF s.exc # NoException THEN Raise(g, s.exc)
        ELSE remove_relationships_loop(g, s.remove_relationships, 1)))

(***************************************************************************)
(* The filter engine: filter_relationships, trim, apply_filter_params      *)
(***************************************************************************)
\* an Optional[Iterable] argument: None, or the set built from the iterable
NotGiven == [given |-> FALSE, val |-> {}]
Given(S) == [given |-> TRUE, val |-> S]

\* the test of lines 285-292 with the allow list consulted before the deny list
kept_by_filter_allow_first(key, allowed, disallowed) ==
    \/ /\ allowed.given
       /\ (key \in allowed.val \/ <<key[1], Wildcard>> \in allowed.val)
    \/ /\ ~allowed.given
       /\ ~(/\ disallowed.given
            /\ (key \in disallowed.val \/ <<key[1], Wildcard>> \in disallowed.val))

\* lines 285-292: the entry under `key` is copied to new_relationships
kept_by_filter(key, allowed, disallowed) ==
    /\ ~(/\ disallowed.given
         /\ (key \in disallowed.val \/ <<key[1], Wildcard>> \in disallowed.val))
    /\ \/ ~allowed.given
       \/ key \in allowed.val
       \/ <<key[1], Wildcard>> \in allowed.val

\* filter_relationships(inplace=True), lines 278-295
filter_relationships(g, allowed, disallowed) ==
    Return([g EXCEPT !.nodes = [i \in Ids(g) |->
        [g.nodes[i] EXCEPT !.relationships =
            [k \in RelKeys |->
                IF kept_by_filter(k, allowed, disallowed)
                THEN g.nodes[i].relationships[k]
                ELSE {}]]]])

\* the ids in the values of node.relationships
Targets(node) == UNION {node.relationships[k] : k \in RelKeys}

\* one invocation of _get_related_nodes that does not take the visited nodes
\* out of the next frontier
get_related_nodes_round_revisiting(g, current_node_ids, res_set, exclude_ids) ==
    IF ~(current_node_ids \subseteq Ids(g))
    THEN [res_set |-> res_set \cup current_node_ids, new_node_ids |-> {},
          exc |-> MissingNodeError]
    ELSE [res_set |-> res_set \cup current_node_ids,
          new_node_ids |-> (UNION {g.nodes[n].parent_ids \cup g.nodes[n].child_ids :
                                     n \in current_node_ids}) \ exclude_ids,
          exc |-> NoException]

\* trim, one invocation of _get_related_nodes up to its return or its recursive
\* call (lines 322-329): the visited set and the next frontier
get_related_nodes_round(g, current_node_ids, res_set, exclude_ids) ==
    IF ~(current_node_ids \subseteq Ids(g))
    THEN [res_set |-> res_set \cup current_node_ids, new_node_ids |-> {},
          exc |-> MissingNodeError]
    ELSE [res_set |-> res_set \cup current_node_ids,
          new_node_ids |-> (UNION {g.nodes[n].parent_ids \cup g.nodes[n].child_ids :
                                     n \in current_node_ids})
                              \ ((res_set \cup current_node_ids) \cup exclude_ids),
          exc |-> NoException]

\* trim, _get_related_nodes (lines 321-331): the closure of the anchors under
\* parents and children outside exclude_ids; get_node raises for an id that is
\* no node
RECURSIVE get_related_nodes(_, _, _, _)
get_related_nodes(g, current_node_ids, res_set, exclude_ids) ==
    With(res_set \cup current_node_ids, LAMBDA res :
      IF ~(current_node_ids \subseteq Ids(g))
      THEN [res_set |-> res, exc |-> MissingNodeError]
      ELSE With((UNION {g.nodes[n].parent_ids \cup g.nodes[n].child_ids :
                          n \in current_node_ids}) \ (res \cup exclude_ids),
                LAMBDA new_node_ids :
                  IF new_node_ids = {} THEN [res_set |-> res, exc |-> NoException]
                  ELSE get_related_nodes(g, new_node_ids, res, exclude_ids)))

\* the relationship targets of the anchors with exclude_ids not taken out
anchor_relationships_unfiltered(g, anchor_ids, exclude_ids) ==
    UNION {Targets(g.nodes[n]) : n \in anchor_ids \ exclude_ids}

\* lines 334-338: the relationship targets of the anchors, less exclude_ids
anchor_relationships(g, anchor_ids, exclude_ids) ==
    UNION {Targets(g.nodes[n]) \ exclude_ids : n \in anchor_ids \ exclude_ids}

\* line 340: self.nodes = {k: v for k, v in self.nodes.items() if k in related_nodes}
keep_nodes(g, related_nodes) ==
    [order |-> SelectSeq(g.order, LAMBDA i : i \in related_nodes),
     nodes |-> [i \in Ids(g) \cap related_nodes |-> g.nodes[i]]]

\* trim(inplace=True), lines 318-345
trim(g, anchor_ids, exclude_ids, clear_relations, first_child) ==
    With(IF anchor_ids.given THEN anchor_ids.val ELSE Ids(g), LAMBDA anchors :
      With(IF exclude_ids.given THEN exclude_ids.val ELSE {}, LAMBDA exclude :
        With(get_related_nodes(g, anchors, {}, exclude), LAMBDA related :
          IF related.exc # NoException THEN Raise(g, related.exc)
          ELSE With(related.res_set \cup anchor_relationships(g, anchors, exclude),
                    LAMBDA related_nodes :
                 With(keep_nodes(g, related_nodes), LAMBDA g1 :
                   IF ~clear_relations THEN Return(g1)
                   ELSE Then(remove_redundant_phantoms(g1, FALSE, first_child), LAMBDA g2 :
                          Return(remove_dead_edges(g2))))))))

\* FilterParams
FilterParams(include_relationships, exclude_relationships, include_heroes, exclude_heroes) ==
    [include_relationships |-> include_relationships,
     exclude_relationships |-> exclude_relationships,
     include_heroes |-> include_heroes,
     exclude_heroes |-> exclude_heroes]

\* apply_filter_params(inplace=True), lines 362-370
apply_filter_params(g, params, first_child) ==
    Then(IF params.include_relationships.given \/ params.exclude_relationships.given
         THEN filter_relationships(g, params.include_relationships,
                                   params.exclude_relationships)
         ELSE Return(g), LAMBDA g1 :
      Then(IF params.include_heroes.given \/ params.exclude_heroes.given
           THEN trim(g1, params.include_heroes, params.exclude_heroes, FALSE, first_child)
           ELSE Return(g1), LAMBDA g2 :
        Then(remove_redundant_phantoms(g2, TRUE, first_child), LAMBDA g3 :
          Return(remove_dead_edges(g3)))))

(***************************************************************************)
(* inplace=False: the call works on a deep copy and returns it             *)
(***************************************************************************)
\* the chart object the caller holds, and the object an inplace=False call returns
Self == "self"
Copy == "chart"
None == "None"

\* chart = self: the same object under a second name
same_object(h, self) == [heap |-> h, chart |-> self]

\* chart = deepcopy(self): a new object with a copy of every node
deepcopy(h, self) == [heap |-> (Copy :> h[self]) @@ h, chart |-> Copy]

\* chart.<method>(..., inplace=True) has left r; return chart
return_chart(c, r) ==
    [heap |-> [c.heap EXCEPT ![c.chart] = r.g],
     ret |-> IF r.exc = NoException THEN c.chart ELSE None,
     exc |-> r.exc]

\* filter_relationships(inplace=False), lines 273-276: the call on the copy is
\* chart.filter_relationships(allowed_relationships, inplace=True)
filter_relationships_copy(h, allowed, disallowed) ==
    With(deepcopy(h, Self), LAMBDA c :
      With(filter_relationships(c.heap[c.chart], allowed, NotGiven), LAMBDA r :
        return_chart(c, r)))

\* trim(inplace=False), lines 313-316: the call on the copy is
\* chart.trim(anchor_ids, inplace=True)
trim_copy(h, anchor_ids, exclude_ids, clear_relations, first_child) ==
    With(deepcopy(h, Self), LAMBDA c :
      With(trim(c.heap[c.chart], anchor_ids, NotGiven, TRUE, first_child), LAMBDA r :
        return_chart(c, r)))

\* apply_filter_params(inplace=False), lines 357-360
apply_filter_params_copy(h, params, first_child) ==
    With(deepcopy(h, Self), LAMBDA c :
      With(apply_filter_params(c.heap[c.chart], params, first_child), LAMBDA r :
        return_chart(c, r)))

\* clean_relationships(inplace=False), lines 379-382
clean_relationships_copy(h) ==
    With(deepcopy(h, Self), LAMBDA c :
      With(clean_relationships(c.heap[c.chart]), LAMBDA r :
        return_chart(c, r)))

(***************************************************************************)
(* Charts the calls start from                                             *)
(***************************************************************************)
Last(s) == s[Len(s)]

\* a chart with mutual parent/child edges and no relationships: phantom p has
\* the children pc[p], real node 1 has the children rc
FamilyChildren(pc, rc, i) == IF i \in Phantoms THEN pc[i] ELSE IF i = 1 THEN rc ELSE {}

FamilyChart(pc, rc) ==
    RelationshipChart(Ascending(NodeIds),
      [i \in NodeIds |->
         [is_phantom |-> i \in Phantoms,
          child_ids |-> FamilyChildren(pc, rc, i),
          parent_ids |-> {p \in NodeIds : i \in FamilyChildren(pc, rc, p)},
          relationships |-> NoRelationships]])

FamilyCharts ==
    {FamilyChart(pc, rc) : pc \in [Phantoms -> SUBSET Reals], rc \in SUBSET (Reals \ {1})}

\* one entry written (or deleted) on one node only, as manual construction can
\* do: a one-sided edge, a reference to an id that is no node, a self reference
Defects ==
    (NodeIds \X {"child_ids", "parent_ids"} \X {<<PAST, "rival">>} \X AllIds)
    \cup (NodeIds \X {"relationships"} \X {<<PAST, "rival">>} \X AllIds)

Toggle(S, x) == IF x \in S THEN S \ {x} ELSE S \cup {x}

\* d = <<node, field, relationship key (read for relationships only), target>>
WithDefect(g, d) ==
    IF d[2] = "child_ids" THEN [g EXCEPT !.nodes[d[1]].child_ids = Toggle(@, d[4])]
    ELSE IF d[2] = "parent_ids" THEN [g EXCEPT !.nodes[d[1]].parent_ids = Toggle(@, d[4])]
    ELSE [g EXCEPT !.nodes[d[1]].relationships[d[3]] = Toggle(@, d[4])]

RECURSIVE WithDefects(_, _)
WithDefects(g, ds) ==
    IF ds = {} THEN g
    ELSE With(CHOOSE x \in ds : TRUE, LAMBDA d :
           With(WithDefect(g, d), LAMBDA g1 : WithDefects(g1, ds \ {d})))

RECURSIVE SubsetsUpTo(_, _)
SubsetsUpTo(S, k) ==
    IF k = 0 THEN {{}}
    ELSE With(SubsetsUpTo(S, k - 1), LAMBDA smaller :
           smaller \cup {T \cup {x} : T \in smaller, x \in S})

\* the family charts with at most `defects` such entries
ArbitraryCharts(defects) ==
    {WithDefects(g, ds) : g \in FamilyCharts, ds \in SubsetsUpTo(Defects, defects)}

(***************************************************************************)
(* postprocess on arbitrary charts                                         *)
(***************************************************************************)
Call(op) == [op |-> op]

Init ==
    /\ \E g \in ArbitraryCharts(MaxDefects) : heap = (Self :> g) /\ prev = g
    /\ ret = None
    /\ calls = <<>>
    /\ exc = NoException

\* chart.postprocess()
Postprocess ==
    /\ exc = NoException
    /\ Len(calls) < MaxCalls
    /\ \E first_child \in FirstChildren(heap[Self]) :
          \E r \in {postprocess(heap[Self], first_child)} :
              /\ heap' = [heap EXCEPT ![Self] = r.g]
              /\ exc' = r.exc
    /\ prev' = heap[Self]
    /\ calls' = Append(calls, Call("postprocess"))
    /\ ret' = ret

Next == Postprocess

Spec == Init /\ [][Next]_vars

(***************************************************************************)
(* clean_relationships on charts with relationships                        *)
(***************************************************************************)
MaxRelationships == 3

\* a relationship recorded on both of its ends: <<a, b, key>> with a < b
RelationshipFacts == {f \in Reals \X Reals \X RelKeys : f[1] < f[2]}

RECURSIVE WithRelationships(_, _)
WithRelationships(g, fs) ==
    IF fs = {} THEN g
    ELSE With(CHOOSE x \in fs : TRUE, LAMBDA f :
           With(add_relationship(g, f[1], f[2], f[3]).g, LAMBDA g1 :
             WithRelationships(g1, fs \ {f})))

\* one relationship entry written or deleted on one real node only
RelationshipDefects == Reals \X {"relationships"} \X RelKeys \X (Reals \cup {Missing})

\* charts without edges, with at most `facts` relationships and `defects` such entries
RelationshipCharts(facts, defects) ==
    UNION {{WithDefects(g, ds) : ds \in SubsetsUpTo(RelationshipDefects, defects)} :
             g \in {WithRelationships(FamilyChart([p \in Phantoms |-> {}], {}), fs) :
                      fs \in SubsetsUpTo(RelationshipFacts, facts)}}

InitClean ==
    /\ \E g \in RelationshipCharts(MaxRelationships, MaxDefects) : heap = (Self :> g) /\ prev = g
    /\ ret = None
    /\ calls = <<>>
    /\ exc = NoException

\* chart.clean_relationships(inplace=True)
CleanRelationships ==
    /\ exc = NoException
    /\ Len(calls) < MaxCalls
    /\ \E r \in {clean_relationships(heap[Self])} :
          /\ heap' = [heap EXCEPT ![Self] = r.g]
          /\ exc' = r.exc
    /\ prev' = heap[Self]
    /\ calls' = Append(calls, Call("clean_relationships"))
    /\ ret' = ret

NextClean == CleanRelationships

SpecClean == InitClean /\ [][NextClean]_vars

(***************************************************************************)
(* filter_relationships, in place and on a copy                            *)
(***************************************************************************)
MaxFilterKeys == 1

MethodCall(op, inplace, args) == [op |-> op, inplace |-> inplace, args |-> args]

\* the (status, type) pairs a filter list may hold, '*' being any type
FilterKeys == RelationshipStatus \X (RelTypes \cup {Wildcard})

OptionalFilters == {NotGiven} \cup {Given(S) : S \in SubsetsUpTo(FilterKeys, MaxFilterKeys)}

\* a relationship entry whose target is not a node
DanglingTargets == Reals \X {"relationships"} \X {<<LOCKED, "lover">>} \X {Missing}

\* charts without edges, with at most `facts` relationships and `defects` such entries
FilterCharts(facts, defects) ==
    UNION {{WithDefects(g, ds) : ds \in SubsetsUpTo(DanglingTargets, defects)} :
             g \in {WithRelationships(FamilyChart([p \in Phantoms |-> {}], {}), fs) :
                      fs \in SubsetsUpTo(RelationshipFacts, facts)}}

InitFilter ==
    /\ \E g \in FilterCharts(MaxRelationships, MaxDefects) : heap = (Self :> g) /\ prev = g
    /\ ret = None
    /\ calls = <<>>
    /\ exc = NoException

\* chart.filter_relationships(allowed, disallowed, inplace=True)
FilterRelationships ==
    /\ calls = <<>>
    /\ \E allowed \in OptionalFilters, disallowed \in OptionalFilters :
          /\ \E r \in {filter_relationships(heap[Self], allowed, disallowed)} :
                /\ heap' = [heap EXCEPT ![Self] = r.g]
                /\ exc' = r.exc
          /\ calls' = Append(calls, MethodCall("filter_relationships", TRUE,
                                   [allowed |-> allowed, disallowed |-> disallowed]))
    /\ prev' = heap[Self]
    /\ ret' = None

\* chart.filter_relationships(allowed, disallowed), inplace left at its default
FilterRelationshipsCopy ==
    /\ calls = <<>>
    /\ \E allowed \in OptionalFilters, disallowed \in OptionalFilters :
          /\ \E r \in {filter_relationships_copy(heap, allowed, disallowed)} :
                /\ heap' = r.heap
                /\ ret' = r.ret
                /\ exc' = r.exc
          /\ calls' = Append(calls, MethodCall("filter_relationships", FALSE,
                                   [allowed |-> allowed, disallowed |-> disallowed]))
    /\ prev' = heap[Self]

NextFilter == FilterRelationships \/ FilterRelationshipsCopy

SpecFilter == InitFilter /\ [][NextFilter]_vars

(***************************************************************************)
(* trim, in place and on a copy                                            *)
(***************************************************************************)
MaxAnchors == 1
MaxFacts == 1

\* an Optional list of hero ids: None, or a set of ids of real nodes
OptionalIds == {NotGiven} \cup {Given(S) : S \in SubsetsUpTo(Reals, MaxAnchors)}

\* relationships of one type between two real nodes
LoverFacts == {f \in RelationshipFacts : f[3][2] = "lover"}

\* the family charts with at most `facts` such relationships: no reference is
\* dangling and every edge and relationship is mutual
WellFormedCharts(facts) ==
    UNION {{WithRelationships(g, fs) : fs \in SubsetsUpTo(LoverFacts, facts)} :
             g \in FamilyCharts}

\* the chain A-B-C-D-E: real nodes only, each the parent of the next
ChainChart ==
    RelationshipChart(Ascending(NodeIds),
      [i \in NodeIds |->
         [is_phantom |-> FALSE,
          child_ids |-> {i + 1} \cap NodeIds,
          parent_ids |-> {i - 1} \cap NodeIds,
          relationships |-> NoRelationships]])

InitTrim ==
    /\ \E g \in WellFormedCharts(MaxFacts) \cup {ChainChart} :
          heap = (Self :> g) /\ prev = g
    /\ ret = None
    /\ calls = <<>>
    /\ exc = NoException

TrimArgs(anchor_ids, exclude_ids, clear_relations) ==
    [anchor_ids |-> anchor_ids, exclude_ids |-> exclude_ids,
     clear_relations |-> clear_relations]

\* chart.trim(anchor_ids, exclude_ids, clear_relations, inplace=True)
Trim ==
    /\ calls = <<>>
    /\ \E anchor_ids \in OptionalIds, exclude_ids \in OptionalIds, clear_relations \in BOOLEAN :
          /\ \E first_child \in FirstChildren(heap[Self]) :
                \E r \in {trim(heap[Self], anchor_ids, exclude_ids, clear_relations,
                               first_child)} :
                    /\ heap' = [heap EXCEPT ![Self] = r.g]
                    /\ exc' = r.exc
          /\ calls' = Append(calls, MethodCall("trim", TRUE,
                                   TrimArgs(anchor_ids, exclude_ids, clear_relations)))
    /\ prev' = heap[Self]
    /\ ret' = None

\* chart.trim(anchor_ids, exclude_ids, clear_relations), inplace left at its default
TrimCopy ==
    /\ calls = <<>>
    /\ \E anchor_ids \in OptionalIds, exclude_ids \in OptionalIds, clear_relations \in BOOLEAN :
          /\ \E first_child \in FirstChildren(heap[Self]) :
                \E r \in {trim_copy(heap, anchor_ids, exclude_ids, clear_relations,
                                    first_child)} :
                    /\ heap' = r.heap
                    /\ ret' = r.ret
                    /\ exc' = r.exc
          /\ calls' = Append(calls, MethodCall("trim", FALSE,
                                   TrimArgs(anchor_ids, exclude_ids, clear_relations)))
    /\ prev' = heap[Self]

NextTrim == Trim \/ TrimCopy

SpecTrim == InitTrim /\ [][NextTrim]_vars

(***************************************************************************)
(* apply_filter_params on well-formed charts                               *)
(***************************************************************************)
\* the relationship lists of the params: None, or all LOCKED relationships
ParamFilters == {NotGiven, Given({<<LOCKED, Wildcard>>})}

AllFilterParams ==
    {FilterParams(ir, er, ih, eh) :
        ir \in ParamFilters, er \in ParamFilters, ih \in OptionalIds, eh \in OptionalIds}

InitApply ==
    /\ \E g \in WellFormedCharts(MaxFacts) : heap = (Self :> g) /\ prev = g
    /\ ret = None
    /\ calls = <<>>
    /\ exc = NoException

\* chart.apply_filter_params(params, inplace=True)
ApplyFilterParams ==
    /\ calls = <<>>
    /\ \E params \in AllFilterParams :
          /\ \E first_child \in FirstChildren(heap[Self]) :
                \E r \in {apply_filter_params(heap[Self], params, first_child)} :
                    /\ heap' = [heap EXCEPT ![Self] = r.g]
                    /\ exc' = r.exc
          /\ calls' = Append(calls, MethodCall("apply_filter_params", TRUE, params))
    /\ prev' = heap[Self]
    /\ ret' = None

NextApply == ApplyFilterParams

SpecApply == InitApply /\ [][NextApply]_vars

(***************************************************************************)
(* The four inplace=False calls, and what the caller then does with the    *)
(* returned chart                                                          *)
(***************************************************************************)
\* the relationships nodes 1 and 2 may have as lovers: PAST, LOCKED or both
PairFacts == {f \in LoverFacts : f[1] = 1 /\ f[2] = 2}

\* well-formed charts: each phantom has no children, all real nodes but the
\* first, or all real nodes; nodes 1 and 2 have any of the PairFacts
CopyCharts ==
    UNION {{WithRelationships(FamilyChart(pc, {}), fs) : fs \in SUBSET PairFacts} :
             pc \in [Phantoms -> {{}, Reals \ {1}, Reals}]}

InitCopy ==
    /\ \E g \in CopyCharts : heap = (Self :> g) /\ prev = g
    /\ ret = None
    /\ calls = <<>>
    /\ exc = NoException

\* chart.apply_filter_params(params), inplace left at its default
ApplyFilterParamsCopy ==
    /\ calls = <<>>
    /\ \E params \in AllFilterParams :
          /\ \E first_child \in FirstChildren(heap[Self]) :
                \E r \in {apply_filter_params_copy(heap, params, first_child)} :
                    /\ heap' = r.heap
                    /\ ret' = r.ret
                    /\ exc' = r.exc
          /\ calls' = Append(calls, MethodCall("apply_filter_params", FALSE, params))
    /\ prev' = heap[Self]

\* chart.clean_relationships(), inplace left at its default
CleanRelationshipsCopy ==
    /\ calls = <<>>
    /\ \E r \in {clean_relationships_copy(heap)} :
          /\ heap' = r.heap
          /\ ret' = r.ret
          /\ exc' = r.exc
    /\ calls' = Append(calls, MethodCall("clean_relationships", FALSE, <<>>))
    /\ prev' = heap[Self]

\* the caller mutates the chart it was returned: remove_node(node_id)
MutateReturned ==
    /\ Len(calls) = 1
    /\ exc = NoException
    /\ ret # None
    /\ \E node_id \in Ids(heap[ret]) :
          /\ \E r \in {remove_node(heap[ret], node_id, TRUE)} :
                /\ heap' = [heap EXCEPT ![ret] = r.g]
                /\ exc' = r.exc
          /\ calls' = Append(calls, MethodCall("remove_node", TRUE, node_id))
    /\ UNCHANGED <<ret, prev>>

NextCopy ==
    \/ FilterRelationshipsCopy
    \/ TrimCopy
    \/ ApplyFilterParamsCopy
    \/ CleanRelationshipsCopy
    \/ MutateReturned

SpecCopy == InitCopy /\ [][NextCopy]_vars

(***************************************************************************)
(* add_sibling, called once and again                                      *)
(***************************************************************************)
InitSibling ==
    /\ \E g \in FamilyCharts : heap = (Self :> g) /\ prev = g
    /\ ret = None
    /\ calls = <<>>
    /\ exc = NoException

\* chart.add_sibling(first_id, second_id), once or after an add_sibling
AddSibling ==
    /\ exc = NoException
    /\ Len(calls) < MaxCalls
    /\ \A i \in 1..Len(calls) : calls[i].op = "add_sibling"
    /\ \E first_id \in AllIds, second_id \in AllIds :
          /\ \E phantom_id \in NewPhantomIds(heap[Self]), ord \in IterationOrders(heap[Self]) :
                \E r \in {add_sibling(heap[Self], first_id, second_id, phantom_id, ord)} :
                    /\ heap' = [heap EXCEPT ![Self] = r.g]
                    /\ exc' = r.exc
          /\ calls' = Append(calls, MethodCall("add_sibling", TRUE, <<first_id, second_id>>))
    /\ prev' = heap[Self]
    /\ ret' = None

NextSibling == AddSibling

SpecSibling == InitSibling /\ [][NextSibling]_vars

(***************************************************************************)
(* add_child, and remove_node after it                                     *)
(***************************************************************************)
MaxEdges == 1

\* a parent/child edge that gives a phantom a parent
PhantomEdges == {e \in NodeIds \X Phantoms : e[1] # e[2]}

RECURSIVE WithChildren(_, _)
WithChildren(g, es) ==
    IF es = {} THEN g
    ELSE With(CHOOSE x \in es : TRUE, LAMBDA e :
           With(add_child(g, e[1], e[2], FALSE, <<>>).g, LAMBDA g1 :
             WithChildren(g1, es \ {e})))

\* the family charts with at most `edges` such edges: every edge is mutual
ChildCharts(edges) ==
    UNION {{WithChildren(g, es) : es \in SubsetsUpTo(PhantomEdges, edges)} :
             g \in FamilyCharts}

InitChild ==
    /\ \E g \in ChildCharts(MaxEdges) : heap = (Self :> g) /\ prev = g
    /\ ret = None
    /\ calls = <<>>
    /\ exc = NoException

\* chart.add_child(parent_id, child_id, handle_phantoms)
AddChild ==
    /\ calls = <<>>
    /\ \E parent_id \in AllIds, child_id \in AllIds, handle_phantoms \in BOOLEAN :
          /\ \E ord \in IterationOrders(heap[Self]) :
                \E r \in {add_child(heap[Self], parent_id, child_id, handle_phantoms, ord)} :
                    /\ heap' = [heap EXCEPT ![Self] = r.g]
                    /\ exc' = r.exc
          /\ calls' = Append(calls, MethodCall("add_child", TRUE,
                                   <<parent_id, child_id, handle_phantoms>>))
    /\ prev' = heap[Self]
    /\ ret' = None

\* chart.remove_node(node_id) after the add_child; prev stays the chart the
\* add_child started from
RemoveNode ==
    /\ Len(calls) = 1
    /\ exc = NoException
    /\ \E node_id \in Ids(heap[Self]) :
          /\ \E r \in {remove_node(heap[Self], node_id, TRUE)} :
                /\ heap' = [heap EXCEPT ![Self] = r.g]
                /\ exc' = r.exc
          /\ calls' = Append(calls, MethodCall("remove_node", TRUE, <<node_id, TRUE>>))
    /\ UNCHANGED <<prev, ret>>

NextChild == AddChild \/ RemoveNode

SpecChild == InitChild /\ [][NextChild]_vars

(***************************************************************************)
(* The three edge operations, called with any ids                          *)
(***************************************************************************)
\* chart.add_relationship(first_id, second_id, rel_status, rel_type)
AddRelationship ==
    /\ calls = <<>>
    /\ \E first_id \in AllIds, second_id \in AllIds, key \in RelKeys :
          /\ \E r \in {add_relationship(heap[Self], first_id, second_id, key)} :
                /\ heap' = [heap EXCEPT ![Self] = r.g]
                /\ exc' = r.exc
          /\ calls' = Append(calls, MethodCall("add_relationship", TRUE,
                                   <<first_id, second_id, key>>))
    /\ prev' = heap[Self]
    /\ ret' = None

NextEdge == AddChild \/ AddSibling \/ AddRelationship

SpecEdge == InitSibling /\ [][NextEdge]_vars

(***************************************************************************)
(* The builder: from_character_data                                        *)
(***************************************************************************)
MaxAspects == 3

\* CharacterAspect: title and data; CharacterData: id and aspects
CharacterAspect(title, data) == [title |-> title, data |-> data]
CharacterData(id, aspects) == [id |-> id, aspects |-> aspects]

\* past_relationship_re = re.compile(r'relationship_(.*)_\d+'): the titles of the
\* model that match it, with group(1)
past_relationship_re == ("relationship_rival_1" :> "rival")

\* from_node_list of one real node per character, in the order of the list
from_node_list(characters) ==
    RelationshipChart([i \in 1..Len(characters) |-> characters[i].id],
                      [n \in {characters[i].id : i \in 1..Len(characters)} |->
                          CharacterNode(FALSE)])

\* the dispatch with childOf read like parentOf
apply_aspect_child_as_parent(g, character_id, aspect, phantom_id, ord) ==
    IF aspect.title \in {"parentOf", "childOf"}
    THEN add_child(g, character_id, aspect.data[1], TRUE, ord)
    ELSE IF aspect.title = "siblingOf"
    THEN add_sibling(g, character_id, aspect.data[1], phantom_id, ord)
    ELSE IF aspect.title = "lockedRelationship"
    THEN add_relationship(g, character_id, aspect.data[2], <<LOCKED, aspect.data[1]>>)
    ELSE IF aspect.title \in DOMAIN past_relationship_re
    THEN add_relationship(g, character_id, aspect.data[1],
                          <<PAST, past_relationship_re[aspect.title]>>)
    ELSE Return(g)

\* lines 428-441: the call one aspect of a character leads to
apply_aspect(g, character_id, aspect, phantom_id, ord) ==
    IF aspect.title = "parentOf"
    THEN add_child(g, character_id, aspect.data[1], TRUE, ord)
    ELSE IF aspect.title = "childOf"
    THEN add_child(g, aspect.data[1], character_id, TRUE, ord)
    ELSE IF aspect.title = "siblingOf"
    THEN add_sibling(g, character_id, aspect.data[1], phantom_id, ord)
    ELSE IF aspect.title = "lockedRelationship"
    THEN add_relationship(g, character_id, aspect.data[2], <<LOCKED, aspect.data[1]>>)
    ELSE IF aspect.title \in DOMAIN past_relationship_re
    THEN add_relationship(g, character_id, aspect.data[1],
                          <<PAST, past_relationship_re[aspect.title]>>)
    ELSE Return(g)

\* no exception suppressed
suppress_nothing(r) == r

\* with contextlib.suppress(MissingNodeError)
suppress(r) == IF r.exc = MissingNodeError THEN Return(r.g) ELSE r

\* the lists of distinct real ids of at least two characters
CharacterIds == {ids \in UNION {[1..n -> Reals] : n \in 2..NumReal} :
                    \A i \in DOMAIN ids, j \in DOMAIN ids : ids[i] = ids[j] => i = j}

\* the aspects a character may carry about `target`: a parent, child or sibling,
\* a locked or a past relationship
AspectsAbout(target) ==
    {CharacterAspect("parentOf", <<target>>),
     CharacterAspect("childOf", <<target>>),
     CharacterAspect("siblingOf", <<target>>),
     CharacterAspect("lockedRelationship", <<"rival", target>>),
     CharacterAspect("relationship_rival_1", <<target>>)}

\* the id an aspect is about
AspectTarget(aspect) == aspect.data[Len(aspect.data)]

\* the position in characters of the character whose aspects are being read
CurrentCharacter(g) ==
    IF calls = <<>> THEN 1
    ELSE CHOOSE i \in 1..Len(g.order) : g.order[i] = Last(calls).args[1]

\* lines 421-424: chart = cls.from_node_list([...]) for the characters given
InitBuild ==
    /\ \E ids \in CharacterIds :
          \E characters \in {[i \in DOMAIN ids |-> CharacterData(ids[i], <<>>)]} :
              /\ heap = (Copy :> from_node_list(characters))
              /\ prev = from_node_list(characters)
    /\ ret = None
    /\ calls = <<>>
    /\ exc = NoException

\* lines 428-441, one turn of the inner loop: the next aspect is one of the
\* character being read or of a later one, about another character or an id that
\* is no character; the order of the real nodes in the chart is that of the
\* list of characters
ApplyAspect ==
    /\ ret = None
    /\ exc = NoException
    /\ Len(calls) < MaxAspects
    /\ \E i \in CurrentCharacter(heap[Copy])..Len(SelectSeq(heap[Copy].order,
                                                    LAMBDA n : n \in Reals)) :
          \E character_id \in {SelectSeq(heap[Copy].order, LAMBDA n : n \in Reals)[i]} :
             \E target \in (Reals \cup {Missing}) \ {character_id} :
                \E aspect \in AspectsAbout(target) :
                   /\ \E phantom_id \in NewPhantomIds(heap[Copy]),
                         ord \in IterationOrders(heap[Copy]) :
                         \E r \in {suppress(apply_aspect(heap[Copy], character_id, aspect,
                                                         phantom_id, ord))} :
                             /\ heap' = [heap EXCEPT ![Copy] = r.g]
                             /\ exc' = r.exc
                   /\ calls' = Append(calls, MethodCall("aspect", TRUE,
                                            <<character_id, aspect>>))
    /\ prev' = heap[Copy]
    /\ ret' = ret

\* lines 443-445, after the loops: chart.postprocess() with postprocess left at
\* its default, and return chart
ReturnChart ==
    /\ ret = None
    /\ exc = NoException
    /\ \E first_child \in FirstChildren(heap[Copy]) :
          \E r \in {postprocess(heap[Copy], first_child)} :
              /\ heap' = [heap EXCEPT ![Copy] = r.g]
              /\ exc' = r.exc
              /\ ret' = IF r.exc = NoException THEN Copy ELSE None
    /\ calls' = Append(calls, MethodCall("from_character_data", FALSE, <<>>))
    /\ prev' = heap[Copy]

NextBuild == ApplyAspect \/ ReturnChart

SpecBuild == InitBuild /\ [][NextBuild]_vars

(***************************************************************************)
(* The three passes of postprocess, one after the other                    *)
(***************************************************************************)
\* a chart of the real nodes and of the phantoms `phantoms`, in the order
\* `order`: phantom p has the children pc[p], real node 1 has the children rc;
\* every edge is mutual
GroupChart(phantoms, pc, rc, order) ==
    RelationshipChart(order,
      [i \in Reals \cup phantoms |->
         [is_phantom |-> i \in phantoms,
          child_ids |-> IF i \in phantoms THEN pc[i] ELSE IF i = 1 THEN rc ELSE {},
          parent_ids |-> {p \in phantoms : i \in pc[p]} \cup (IF i \in rc THEN {1} ELSE {}),
          relationships |-> NoRelationships]])

\* the real nodes in the order of from_node_list, then the phantoms in any of
\* the orders in which they may have been created
GroupCharts(phantoms) ==
    {GroupChart(phantoms, pc, rc, Ascending(Reals) \o p) :
        pc \in [phantoms -> SUBSET Reals], rc \in SUBSET (Reals \ {1}),
        p \in Orderings(phantoms)}

InitPasses ==
    /\ \E g \in GroupCharts(FreshIds) : heap = (Self :> g) /\ prev = g
    /\ ret = None
    /\ calls = <<>>
    /\ exc = NoException

\* chart.remove_redundant_phantoms(clear_relations); prev stays the chart the
\* passes started from
RemoveRedundantPhantoms ==
    /\ calls = <<>>
    /\ \E clear_relations \in BOOLEAN, first_child \in FirstChildren(heap[Self]) :
          /\ \E r \in {remove_redundant_phantoms(heap[Self], clear_relations, first_child)} :
                /\ heap' = [heap EXCEPT ![Self] = r.g]
                /\ exc' = r.exc
          /\ calls' = Append(calls, MethodCall("remove_redundant_phantoms", TRUE,
                                   [clear_relations |-> clear_relations,
                                    first_child |-> first_child]))
    /\ UNCHANGED <<prev, ret>>

\* chart.remove_dead_edges() after it
RemoveDeadEdges ==
    /\ Len(calls) = 1 /\ Last(calls).op = "remove_redundant_phantoms"
    /\ exc = NoException
    /\ heap' = [heap EXCEPT ![Self] = remove_dead_edges(heap[Self])]
    /\ calls' = Append(calls, MethodCall("remove_dead_edges", TRUE, <<>>))
    /\ UNCHANGED <<prev, ret, exc>>

\* chart.ensure_everything_mutual() after the two
EnsureEverythingMutual ==
    /\ Len(calls) = 2 /\ Last(calls).op = "remove_dead_edges"
    /\ exc = NoException
    /\ \E r \in {ensure_everything_mutual(heap[Self])} :
          /\ heap' = [heap EXCEPT ![Self] = r.g]
          /\ exc' = r.exc
    /\ calls' = Append(calls, MethodCall("ensure_everything_mutual", TRUE, <<>>))
    /\ UNCHANGED <<prev, ret>>

NextPasses == RemoveRedundantPhantoms \/ RemoveDeadEdges \/ EnsureEverythingMutual

SpecPasses == InitPasses /\ [][NextPasses]_vars

(***************************************************************************)
(* trim, one invocation of _get_related_nodes at a time                    *)
(***************************************************************************)
MaxClosureEdges == 3

\* the parent-to-child edges a chart may have
ParentChildPairs == {e \in NodeIds \X NodeIds : e[1] # e[2]}

\* the chart of all nodes with the parent-to-child edges E, kept mutual; the
\* edges may form cycles
EdgeChart(E) ==
    RelationshipChart(Ascending(NodeIds),
      [i \in NodeIds |->
         [is_phantom |-> i \in Phantoms,
          child_ids |-> {c \in NodeIds : <<i, c>> \in E},
          parent_ids |-> {p \in NodeIds : <<p, i>> \in E},
          relationships |-> NoRelationships]])

\* every node the child of the one before it, the first the child of the last
RingChart == EdgeChart({e \in ParentChildPairs : e[2] = (e[1] % Cardinality(NodeIds)) + 1})

ClosureCharts(edges) ==
    {EdgeChart(E) : E \in SubsetsUpTo(ParentChildPairs, edges)} \cup {ChainChart, RingChart}

\* an Optional list of ids: None, or ids of nodes and ids that are no node
OptionalNodeIds == {NotGiven} \cup {Given(S) : S \in SubsetsUpTo(NodeIds \cup {Missing}, MaxAnchors)}

InitClosure ==
    /\ \E g \in ClosureCharts(MaxClosureEdges) : heap = (Self :> g) /\ prev = g
    /\ ret = None
    /\ calls = <<>>
    /\ exc = NoException

\* chart.trim(anchor_ids, exclude_ids, clear_relations, inplace=True) up to the
\* first call of _get_related_nodes (lines 318-319)
TrimCall ==
    /\ calls = <<>>
    /\ \E anchor_ids \in OptionalNodeIds, exclude_ids \in OptionalNodeIds,
          clear_relations \in BOOLEAN :
          calls' = <<MethodCall("trim", TRUE,
                                TrimArgs(anchor_ids, exclude_ids, clear_relations))>>
    /\ prev' = heap[Self]
    /\ UNCHANGED <<heap, ret, exc>>

\* the sets trim works with after lines 318-319
AnchorIds == IF calls[1].args.anchor_ids.given THEN calls[1].args.anchor_ids.val ELSE Ids(prev)
ExcludeIds == IF calls[1].args.exclude_ids.given THEN calls[1].args.exclude_ids.val ELSE {}

\* what the invocation recorded in calls[i] computed
RoundOf(i) ==
    get_related_nodes_round(prev, calls[i].args.current_node_ids, calls[i].args.res_set,
                            ExcludeIds)

\* the arguments of the invocation of _get_related_nodes that is due: the one
\* of line 333, or the recursive one of line 331
DueInvocations ==
    IF Len(calls) = 1
    THEN {[current_node_ids |-> AnchorIds, res_set |-> {}]}
    ELSE {[current_node_ids |-> r.new_node_ids, res_set |-> r.res_set] :
            r \in {x \in {RoundOf(Len(calls))} : x.exc = NoException /\ x.new_node_ids # {}}}

\* one invocation of _get_related_nodes; when it returns (line 330) every
\* invocation below it returns too and trim runs to its end (lines 334-345)
GetRelatedNodes ==
    /\ calls # <<>>
    /\ exc = NoException
    /\ \E a \in DueInvocations :
          /\ calls' = Append(calls, MethodCall("_get_related_nodes", TRUE, a))
          /\ \E r \in {get_related_nodes_round(prev, a.current_node_ids, a.res_set, ExcludeIds)} :
                IF r.exc = NoException /\ r.new_node_ids # {}
                THEN UNCHANGED <<heap, exc>>
                ELSE \E first_child \in FirstChildren(heap[Self]) :
                       \E t \in {trim(heap[Self], calls[1].args.anchor_ids,
                                      calls[1].args.exclude_ids,
                                      calls[1].args.clear_relations, first_child)} :
                           /\ heap' = [heap EXCEPT ![Self] = t.g]
                           /\ exc' = t.exc
    /\ UNCHANGED <<prev, ret>>

NextClosure == TrimCall \/ GetRelatedNodes

SpecClosure == InitClosure /\ [][NextClosure]_vars

(***************************************************************************)
(* The mutators, called one after another on a chart that starts empty     *)
(***************************************************************************)
MaxMutations == 6

\* RelationshipChart()
EmptyChart == RelationshipChart(<<>>, [i \in {} |-> CharacterNode(FALSE)])

InitMutate ==
    /\ heap = (Self :> EmptyChart) /\ prev = EmptyChart
    /\ ret = None
    /\ calls = <<>>
    /\ exc = NoException

\* the ids a caller may pass: those of the nodes, and one that is no node
Callable(g) == Ids(g) \cup {Missing}

\* chart.add_node(CharacterNode(id=node_id))
AddNodeCall ==
    /\ exc = NoException /\ Len(calls) < MaxMutations
    /\ \E node_id \in Reals :
          \E r \in {add_node(heap[Self], node_id)} :
              /\ heap' = [heap EXCEPT ![Self] = r.g]
              /\ exc' = r.exc
    /\ calls' = Append(calls, Call("add_node"))
    /\ prev' = heap[Self]
    /\ ret' = None

\* chart.add_child(parent_id, child_id, handle_phantoms)
AddChildCall ==
    /\ exc = NoException /\ Len(calls) < MaxMutations
    /\ \E parent_id \in Callable(heap[Self]), child_id \in Callable(heap[Self]),
          handle_phantoms \in BOOLEAN, ord \in IterationOrders(heap[Self]) :
          \E r \in {add_child(heap[Self], parent_id, child_id, handle_phantoms, ord)} :
              /\ heap' = [heap EXCEPT ![Self] = r.g]
              /\ exc' = r.exc
    /\ calls' = Append(calls, Call("add_child"))
    /\ prev' = heap[Self]
    /\ ret' = None

\* chart.add_sibling(first_id, second_id)
AddSiblingCall ==
    /\ exc = NoException /\ Len(calls) < MaxMutations
    /\ \E first_id \in Callable(heap[Self]), second_id \in Callable(heap[Self]),
          phantom_id \in NewPhantomIds(heap[Self]), ord \in IterationOrders(heap[Self]) :
          \E r \in {add_sibling(heap[Self], first_id, second_id, phantom_id, ord)} :
              /\ heap' = [heap EXCEPT ![Self] = r.g]
              /\ exc' = r.exc
    /\ calls' = Append(calls, Call("add_sibling"))
    /\ prev' = heap[Self]
    /\ ret' = None

\* chart.add_relationship(first_id, second_id, rel_status, rel_type)
AddRelationshipCall ==
    /\ exc = NoException /\ Len(calls) < MaxMutations
    /\ \E first_id \in Callable(heap[Self]), second_id \in Callable(heap[Self]),
          key \in RelKeys :
          \E r \in {add_relationship(heap[Self], first_id, second_id, key)} :
              /\ heap' = [heap EXCEPT ![Self] = r.g]
              /\ exc' = r.exc
    /\ calls' = Append(calls, Call("add_relationship"))
    /\ prev' = heap[Self]
    /\ ret' = None

\* chart.remove_relationship(first_id, second_id, rel_status, rel_type)
RemoveRelationshipCall ==
    /\ exc = NoException /\ Len(calls) < MaxMutations
    /\ \E first_id \in Callable(heap[Self]), second_id \in Callable(heap[Self]),
          key \in RelKeys :
          \E r \in {remove_relationship(heap[Self], first_id, second_id, key)} :
              /\ heap' = [heap EXCEPT ![Self] = r.g]
              /\ exc' = r.exc
    /\ calls' = Append(calls, Call("remove_relationship"))
    /\ prev' = heap[Self]
    /\ ret' = None

\* chart.remove_node(node_id), clear_relations left at its default True
RemoveNodeCall ==
    /\ exc = NoException /\ Len(calls) < MaxMutations
    /\ \E node_id \in Callable(heap[Self]) :
          \E r \in {remove_node(heap[Self], node_id, TRUE)} :
              /\ heap' = [heap EXCEPT ![Self] = r.g]
              /\ exc' = r.exc
    /\ calls' = Append(calls, Call("remove_node"))
    /\ prev' = heap[Self]
    /\ ret' = None

NextMutate ==
    \/ AddNodeCall
    \/ AddChildCall
    \/ AddSiblingCall
    \/ AddRelationshipCall
    \/ RemoveRelationshipCall
    \/ RemoveNodeCall

SpecMutate == InitMutate /\ [][NextMutate]_vars

(***************************************************************************)
(* Properties of a chart                                                   *)
(***************************************************************************)
References(node) == node.parent_ids \cup node.child_ids \cup Targets(node)

NoDanglingEdges(g) == \A n \in Ids(g) : References(g.nodes[n]) \subseteq Ids(g)

EdgesMutual(g) ==
    \A a \in Ids(g), b \in Ids(g) :
        /\ b \in g.nodes[a].child_ids <=> a \in g.nodes[b].parent_ids
        /\ \A k \in RelKeys :
              b \in g.nodes[a].relationships[k] <=> a \in g.nodes[b].relationships[k]

NoRedundantPhantom(g) ==
    \A p \in PhantomsOf(g) :
        /\ g.nodes[p].child_ids # {}
        /\ \A n \in Ids(g) \ {p} : ~(g.nodes[p].child_ids \subseteq g.nodes[n].child_ids)

\* same node ids and, on every node, the same edges and relationships
SameChart(g, h) == Ids(g) = Ids(h) /\ g.nodes = h.nodes

Returned(op) == calls # <<>> /\ Last(calls).op = op /\ exc = NoException

C3_NoRedundantPhantomAfterPostprocess ==
    Returned("postprocess") => NoRedundantPhantom(heap[Self])

\* C4: postprocess() is idempotent: a second run right after a first one
\* leaves the node set and every node's edges and relationships as they were.
C4_PostprocessIdempotent ==
    (Len(calls) = 2 /\ calls[1].op = "postprocess" /\ Returned("postprocess"))
        => SameChart(heap[Self], prev)

(***************************************************************************)
(* Claims about clean_relationships                                        *)
(***************************************************************************)
\* the statuses recorded between a and b for a relationship type, on either end
StatusesBetween(g, a, b, type) ==
    {st \in RelationshipStatus :
        b \in g.nodes[a].relationships[<<st, type>>]
        \/ a \in g.nodes[b].relationships[<<st, type>>]}

\* C5: after clean_relationships() at most one status is recorded between any
\* two nodes for any relationship type: never PAST and LOCKED together, seen
\* from either end.
C5_OneStatusAfterClean ==
    Returned("clean_relationships") =>
        \A a \in Ids(heap[Self]), b \in Ids(heap[Self]), type \in RelTypes :
            Cardinality(StatusesBetween(heap[Self], a, b, type)) <= 1

\* clean_relationships returned on a chart where two distinct nodes had a PAST
\* and a LOCKED entry of one type on both ends, and a LOCKED entry remains
C5_Witness ==
    /\ Len(calls) = 1 /\ Returned("clean_relationships")
    /\ \E a \in Ids(prev), b \in Ids(prev), type \in RelTypes :
          /\ a # b
          /\ \A st \in RelationshipStatus :
                /\ b \in prev.nodes[a].relationships[<<st, type>>]
                /\ a \in prev.nodes[b].relationships[<<st, type>>]
          /\ StatusesBetween(heap[Self], a, b, type) = {LOCKED}

\* every relationship target is a node that records the same entry back
RelationshipsMutual(g) ==
    \A a \in Ids(g), key \in RelKeys :
        \A b \in g.nodes[a].relationships[key] :
            b \in Ids(g) /\ a \in g.nodes[b].relationships[key]

\* g without the PAST entries that have a LOCKED entry of the same type to the
\* same target
WithoutSupersededPast(g) ==
    [g EXCEPT !.nodes = [a \in Ids(g) |->
        [g.nodes[a] EXCEPT !.relationships = [key \in RelKeys |->
            IF key[1] = PAST
            THEN g.nodes[a].relationships[key]
                   \ g.nodes[a].relationships[<<LOCKED, key[2]>>]
            ELSE g.nodes[a].relationships[key]]]]]

\* C17: on a chart with mutual relationships and no dangling targets,
\* clean_relationships removes from both ends exactly the PAST entries that have
\* a LOCKED entry of the same type between the same two nodes and leaves every
\* other entry as it was; a second application removes nothing.
C17_CleanRemovesExactlySupersededPast ==
    (Returned("clean_relationships") /\ RelationshipsMutual(prev)) =>
        /\ heap[Self] = WithoutSupersededPast(prev)
        /\ Len(calls) = 2 => heap[Self] = prev

\* clean_relationships removed a PAST entry that had a LOCKED counterpart and
\* kept a PAST entry of the same node and type to another node
C17_Witness ==
    /\ Len(calls) = 1 /\ Returned("clean_relationships")
    /\ RelationshipsMutual(prev)
    /\ \E a \in Ids(prev), b \in Ids(prev), c \in Ids(prev), type \in RelTypes :
          /\ b \in prev.nodes[a].relationships[<<LOCKED, type>>]
          /\ b \in prev.nodes[a].relationships[<<PAST, type>>]
          /\ b \notin heap[Self].nodes[a].relationships[<<PAST, type>>]
          /\ a \notin heap[Self].nodes[b].relationships[<<PAST, type>>]
          /\ c \in heap[Self].nodes[a].relationships[<<PAST, type>>]

(***************************************************************************)
(* Claims about the filter engine                                          *)
(***************************************************************************)
\* the chart a call produced: the chart it mutated, or the chart it returned
Produced == IF Last(calls).inplace THEN heap[Self] ELSE heap[ret]

DenyLocked == [allowed |-> NotGiven, disallowed |-> Given({<<LOCKED, Wildcard>>})]

\* C6: the chart produced by filter_relationships with deny = {(LOCKED, '*')}
\* and no allow list (mutated in place, or returned with inplace=False) has no
\* LOCKED entry of any type, and its PAST entries are those of the input chart.
C6_DenyLockedKeepsPast ==
    (Returned("filter_relationships") /\ Len(calls) = 1 /\ Last(calls).args = DenyLocked)
        => /\ Ids(Produced) = Ids(prev)
           /\ \A n \in Ids(prev), type \in RelTypes :
                 /\ Produced.nodes[n].relationships[<<LOCKED, type>>] = {}
                 /\ Produced.nodes[n].relationships[<<PAST, type>>]
                        = prev.nodes[n].relationships[<<PAST, type>>]

\* (status, kind) or (status, '*') is in the list
Matches(key, list) == key \in list.val \/ <<key[1], Wildcard>> \in list.val

\* C18: after in-place filter_relationships(allow, deny) every node keeps an
\* entry, with its target set unchanged, exactly when the entry does not match
\* deny and either allow is unset or the entry matches allow; every other entry
\* is removed, so an entry matching both lists is removed.
C18_FilterKeepsExactlyPermittedEntries ==
    (Returned("filter_relationships") /\ Len(calls) = 1 /\ Last(calls).inplace)
        => /\ Ids(heap[Self]) = Ids(prev)
           /\ \A n \in Ids(prev), key \in RelKeys :
                 heap[Self].nodes[n].relationships[key]
                   = IF /\ ~(Last(calls).args.disallowed.given
                             /\ Matches(key, Last(calls).args.disallowed))
                        /\ (~Last(calls).args.allowed.given
                             \/ Matches(key, Last(calls).args.allowed))
                     THEN prev.nodes[n].relationships[key]
                     ELSE {}

\* an in-place filter_relationships removed an entry that matched both lists
\* and kept another entry of the same node
C18_Witness ==
    /\ Returned("filter_relationships") /\ Len(calls) = 1 /\ Last(calls).inplace
    /\ Last(calls).args.allowed.given /\ Last(calls).args.disallowed.given
    /\ \E n \in Ids(prev), key \in RelKeys, other \in RelKeys :
          /\ Matches(key, Last(calls).args.allowed)
          /\ Matches(key, Last(calls).args.disallowed)
          /\ prev.nodes[n].relationships[key] # {}
          /\ heap[Self].nodes[n].relationships[key] = {}
          /\ heap[Self].nodes[n].relationships[other] # {}

\* C9: after trim(anchors, exclude), in place or on the returned copy, with
\* anchors given or omitted, also when an excluded id is listed as an anchor, no
\* node whose id is in exclude remains; on the chain A-B-C-D-E, anchors = {C}
\* and exclude = {B} leave exactly the nodes C, D, E.
C9_NoExcludedNodeRemains ==
    Returned("trim") =>
        /\ Ids(Produced) \cap Last(calls).args.exclude_ids.val = {}
        /\ (/\ prev = ChainChart
            /\ Last(calls).args.anchor_ids = Given({3})
            /\ Last(calls).args.exclude_ids = Given({2}))
              => Ids(Produced) = NodeIds \ {1, 2}

\* the least set that contains S and is closed under adding parents and
\* children that are not in exclude
RECURSIVE Closure(_, _, _)
Closure(g, S, exclude) ==
    With((UNION {g.nodes[n].parent_ids \cup g.nodes[n].child_ids : n \in S})
            \ (S \cup exclude), LAMBDA more :
      IF more = {} THEN S ELSE Closure(g, S \cup more, exclude))

\* an in-place trim with anchors that are nodes and none of them excluded, on a
\* chart with mutual edges and no dangling reference
TrimmedFromAnchors ==
    /\ Len(calls) = 1 /\ Last(calls).op = "trim" /\ Last(calls).inplace
    /\ EdgesMutual(prev) /\ NoDanglingEdges(prev)
    /\ Last(calls).args.anchor_ids.given
    /\ Last(calls).args.anchor_ids.val \subseteq Ids(prev)
    /\ Last(calls).args.anchor_ids.val \cap Last(calls).args.exclude_ids.val = {}

\* the closure of the anchors under parents and children outside exclude,
\* together with the relationship targets of the anchors outside exclude
ClosureAndTargets ==
    Closure(prev, Last(calls).args.anchor_ids.val, Last(calls).args.exclude_ids.val)
      \cup ((UNION {Targets(prev.nodes[n]) : n \in Last(calls).args.anchor_ids.val})
              \ Last(calls).args.exclude_ids.val)

\* C19 as stated: the node set left by such a trim is exactly the closure of the
\* anchors under parents and children outside exclude, together with every
\* relationship target of an anchor that is not in exclude.
C19_TrimLeavesClosureAndTargets ==
    TrimmedFromAnchors => Ids(heap[Self]) = ClosureAndTargets

\* C19: with clear_relations=False the node set left by such a trim is exactly
\* that set; with clear_relations=True it is that set less phantom nodes only
\* (those the redundant-phantom removal took out), so an anchor without edges is
\* left alone and a node reachable only through an excluded node is removed.
C19_TrimLeavesClosureLessPhantoms ==
    TrimmedFromAnchors =>
        /\ Ids(heap[Self]) \subseteq ClosureAndTargets
        /\ \A n \in ClosureAndTargets \ Ids(heap[Self]) : prev.nodes[n].is_phantom
        /\ ~Last(calls).args.clear_relations
              => (exc = NoException /\ Ids(heap[Self]) = ClosureAndTargets)

\* a trim that kept a relationship target of the anchor outside the closure and
\* removed a node that was reachable only through the excluded node
C19_Witness ==
    /\ TrimmedFromAnchors /\ exc = NoException
    /\ Last(calls).args.exclude_ids.val # {}
    /\ Ids(heap[Self]) = ClosureAndTargets
    /\ ClosureAndTargets
         # Closure(prev, Last(calls).args.anchor_ids.val, Last(calls).args.exclude_ids.val)
    /\ Closure(prev, Last(calls).args.anchor_ids.val, {}) \ Last(calls).args.exclude_ids.val
         # Closure(prev, Last(calls).args.anchor_ids.val, Last(calls).args.exclude_ids.val)

\* C10: on a chart without dangling references and with mutual edges, and with
\* params whose hero ids are all nodes of the chart, apply_filter_params does
\* not raise, and afterwards every id in any parent_ids, child_ids or
\* relationship target set is a node of the chart.
C10_ApplyFilterParamsLeavesNoDangling ==
    (/\ calls # <<>>
     /\ Last(calls).op = "apply_filter_params"
     /\ NoDanglingEdges(prev) /\ EdgesMutual(prev)
     /\ Last(calls).args.include_heroes.val \subseteq Ids(prev)
     /\ Last(calls).args.exclude_heroes.val \subseteq Ids(prev))
        => /\ exc = NoException
           /\ NoDanglingEdges(Produced)

(***************************************************************************)
(* Claims about inplace=False                                              *)
(***************************************************************************)
\* what the call does when it is run with inplace=True on chart g, for every
\* choice of children[0]
InPlaceOutcomes(call, g) ==
    IF call.op = "filter_relationships"
    THEN {filter_relationships(g, call.args.allowed, call.args.disallowed)}
    ELSE IF call.op = "trim"
    THEN {trim(g, call.args.anchor_ids, call.args.exclude_ids, call.args.clear_relations,
               first_child) : first_child \in FirstChildren(g)}
    ELSE IF call.op = "apply_filter_params"
    THEN {apply_filter_params(g, call.args, first_child) : first_child \in FirstChildren(g)}
    ELSE {clean_relationships(g)}

\* C7: the chart that filter_relationships, trim, apply_filter_params or
\* clean_relationships returns with inplace=False has the node ids, parent_ids,
\* child_ids and relationships that the same call with the same arguments and
\* inplace=True leaves on a copy of the original.
C7_CopyEqualsInPlaceOnCopy ==
    (Len(calls) = 1 /\ ~calls[1].inplace /\ exc = NoException)
        => \E r \in InPlaceOutcomes(calls[1], prev) :
              r.exc = NoException /\ SameChart(heap[ret], r.g)

\* C8: a call of one of the four methods with inplace=False leaves the original
\* chart as it was (node set, and parent_ids, child_ids and relationships of
\* every node), and so does a later mutation of the returned chart.
C8_OriginalUnchanged ==
    (calls # <<>> /\ ~calls[1].inplace) => SameChart(heap[Self], prev)

\* apply_filter_params(inplace=False) returned a chart that differs from the
\* original, and the caller then removed a node from the returned chart
C8_Witness ==
    /\ Len(calls) = 2
    /\ calls[1].op = "apply_filter_params" /\ ~calls[1].inplace
    /\ calls[2].op = "remove_node"
    /\ exc = NoException
    /\ ret = Copy
    /\ Ids(heap[ret]) # {}
    /\ Ids(heap[ret]) # Ids(prev) \ {calls[2].args}

(***************************************************************************)
(* Claims about the edge operations                                        *)
(***************************************************************************)
\* C11: add_sibling(a, b) on two distinct nodes of the chart that share no
\* parent adds exactly one node, a phantom with the child set {a, b} that is in
\* the parent_ids of a and of b; add_sibling(a, b) called again right after
\* leaves the chart as it is.
C11_AddSiblingCreatesOnePhantom ==
    /\ (/\ Len(calls) = 1 /\ Returned("add_sibling")
        /\ calls[1].args[1] # calls[1].args[2]
        /\ prev.nodes[calls[1].args[1]].parent_ids
              \cap prev.nodes[calls[1].args[2]].parent_ids = {})
          => \E p \in Ids(heap[Self]) :
                /\ Ids(heap[Self]) \ Ids(prev) = {p}
                /\ heap[Self].nodes[p].is_phantom
                /\ heap[Self].nodes[p].child_ids = {calls[1].args[1], calls[1].args[2]}
                /\ p \in heap[Self].nodes[calls[1].args[1]].parent_ids
                /\ p \in heap[Self].nodes[calls[1].args[2]].parent_ids
    /\ (/\ Len(calls) = 2 /\ Returned("add_sibling")
        /\ calls[1].op = "add_sibling" /\ calls[2].args = calls[1].args)
          => heap[Self] = prev

\* add_child(p, c) returned and remove_node(c) returned after it
AddedThenRemoved ==
    /\ Len(calls) = 2 /\ exc = NoException
    /\ calls[1].op = "add_child" /\ calls[2].op = "remove_node"
    /\ calls[2].args[1] = calls[1].args[2]

\* C12 as stated: add_child(p, c) followed by remove_node(c,
\* clear_relations=True) leaves p.child_ids as it was before the add_child.
C12_AddThenRemoveRestoresChildren ==
    AddedThenRemoved =>
        heap[Self].nodes[calls[1].args[1]].child_ids = prev.nodes[calls[1].args[1]].child_ids

\* C12: add_child(p, c) followed by remove_node(c, clear_relations=True) leaves
\* p.child_ids equal to its value before the add_child less c and less the
\* phantoms that add_child removed; it is the value before when c was not a
\* child of p and handle_phantoms is off.
C12_AddThenRemoveRestoresOtherChildren ==
    AddedThenRemoved =>
        /\ heap[Self].nodes[calls[1].args[1]].child_ids
             = prev.nodes[calls[1].args[1]].child_ids
                 \ ({calls[1].args[2]} \cup (Ids(prev) \ Ids(heap[Self])))
        /\ (/\ calls[1].args[2] \notin prev.nodes[calls[1].args[1]].child_ids
            /\ ~calls[1].args[3])
              => heap[Self].nodes[calls[1].args[1]].child_ids
                   = prev.nodes[calls[1].args[1]].child_ids

\* a new child of a parent that had other children was added without phantom
\* handling and then removed
C12_Witness ==
    /\ AddedThenRemoved
    /\ ~calls[1].args[3]
    /\ calls[1].args[2] \notin prev.nodes[calls[1].args[1]].child_ids
    /\ prev.nodes[calls[1].args[1]].child_ids # {}
    /\ heap[Self].nodes[calls[1].args[1]].child_ids = prev.nodes[calls[1].args[1]].child_ids

\* the phantom parents of child_id other than parent_id whose whole child set
\* lies in parent_id's child set once child_id is added to it
CoveredPhantoms(g, parent_id, child_id) ==
    {q \in Ids(g) : /\ g.nodes[q].is_phantom
                    /\ q \in g.nodes[child_id].parent_ids
                    /\ q # parent_id
                    /\ g.nodes[q].child_ids
                         \subseteq g.nodes[parent_id].child_ids \cup {child_id}}

\* g with the edge parent_id -> child_id added and the nodes of `removed` taken
\* out, together with every reference to them
ExpectedAfterAddChild(g, parent_id, child_id, removed) ==
    [order |-> SelectSeq(g.order, LAMBDA i : i \notin removed),
     nodes |-> [i \in Ids(g) \ removed |->
        [is_phantom |-> g.nodes[i].is_phantom,
         child_ids |-> (g.nodes[i].child_ids
                          \cup (IF i = parent_id THEN {child_id} ELSE {})) \ removed,
         parent_ids |-> (g.nodes[i].parent_ids
                           \cup (IF i = child_id THEN {parent_id} ELSE {})) \ removed,
         relationships |-> [k \in RelKeys |-> g.nodes[i].relationships[k] \ removed]]]]

\* C20: add_child(p, c, handle_phantoms=True) on distinct existing nodes adds c
\* to p.child_ids and p to c.parent_ids and removes exactly the phantom parents of
\* c other than p whose child set lies in p's child set after the addition, with
\* every reference to them; no other node or edge changes.
C20_AddChildRemovesCoveredPhantoms ==
    (/\ Len(calls) = 1 /\ Returned("add_child")
     /\ calls[1].args[3]
     /\ calls[1].args[1] # calls[1].args[2])
       => /\ calls[1].args[2] \in heap[Self].nodes[calls[1].args[1]].child_ids
          /\ calls[1].args[1] \in heap[Self].nodes[calls[1].args[2]].parent_ids
          /\ Ids(heap[Self])
               = Ids(prev) \ CoveredPhantoms(prev, calls[1].args[1], calls[1].args[2])
          /\ heap[Self] = ExpectedAfterAddChild(prev, calls[1].args[1], calls[1].args[2],
                              CoveredPhantoms(prev, calls[1].args[1], calls[1].args[2]))

\* the first call was an edge operation given two identical ids or an id that
\* is not a node of the chart
BadEdgeCall ==
    /\ Len(calls) = 1
    /\ calls[1].op \in {"add_child", "add_sibling", "add_relationship"}
    /\ \/ calls[1].args[1] = calls[1].args[2]
       \/ calls[1].args[1] \notin Ids(prev)
       \/ calls[1].args[2] \notin Ids(prev)

\* C16: add_child, add_sibling or add_relationship given two identical ids or an
\* id that is not in the chart fails and leaves the chart exactly as it was.
C16_BadEdgeCallFailsWithoutEffect ==
    BadEdgeCall => (exc # NoException /\ heap[Self] = prev)

\* an add_relationship whose first node exists and whose second does not
C16_Witness ==
    /\ BadEdgeCall
    /\ calls[1].op = "add_relationship"
    /\ calls[1].args[1] \in Ids(prev)
    /\ calls[1].args[2] \notin Ids(prev)
    /\ exc = MissingNodeError
    /\ heap[Self] = prev

(***************************************************************************)
(* Claims about the builder                                                *)
(***************************************************************************)
\* what an aspect of a character declares
Declared(character_id, aspect) ==
    IF aspect.title = "parentOf" THEN <<"parent", character_id, AspectTarget(aspect)>>
    ELSE IF aspect.title = "childOf" THEN <<"parent", AspectTarget(aspect), character_id>>
    ELSE IF character_id < AspectTarget(aspect)
    THEN <<aspect.title, character_id, AspectTarget(aspect)>>
    ELSE <<aspect.title, AspectTarget(aspect), character_id>>

\* the declarations the build has read
Declarations ==
    {Declared(calls[i].args[1], calls[i].args[2]) :
        i \in {k \in DOMAIN calls : calls[k].op = "aspect"}}

\* from_character_data has returned the chart
Built == calls # <<>> /\ Last(calls).op = "from_character_data" /\ ret = Copy

\* the characters are a, b and c, a is declared parent of b and of c, and b and
\* c may be declared siblings; nothing else is declared
ParentOfTwo(a, b, c) ==
    /\ {a, b, c} = Reals /\ Ids(prev) \cap Reals = Reals
    /\ b < c
    /\ \/ Declarations = {<<"parent", a, b>>, <<"parent", a, c>>}
       \/ Declarations = {<<"parent", a, b>>, <<"parent", a, c>>, <<"siblingOf", b, c>>}

\* C13: building from A, B, C with A declared parent of B and of C gives
\* A.child_ids = {B, C}, B.parent_ids = C.parent_ids = {A} and no phantom node,
\* also when B and C are declared siblings, in every order of processing.
C13_KnownParentLeavesNoPhantom ==
    \A a \in Reals, b \in Reals, c \in Reals :
        (Built /\ ParentOfTwo(a, b, c)) =>
            /\ Ids(heap[Copy]) = Reals
            /\ \A n \in Reals : ~heap[Copy].nodes[n].is_phantom
            /\ heap[Copy].nodes[a].child_ids = {b, c}
            /\ heap[Copy].nodes[b].parent_ids = {a}
            /\ heap[Copy].nodes[c].parent_ids = {a}

\* such a build where the siblings were declared before the second child of the
\* parent, so that a phantom was created and removed again
C13_Witness ==
    /\ Built
    /\ \E a \in Reals, b \in Reals, c \in Reals :
          /\ ParentOfTwo(a, b, c)
          /\ heap[Copy].nodes[a].child_ids = {b, c}
    /\ Len(calls) = 4
    /\ calls[1].args[2].title = "siblingOf"
    /\ Ids(heap[Copy]) = Reals

\* C14: building from B and C with no declared parent, where B is declared
\* sibling of C (from either side or from both), gives exactly one phantom P with
\* P.child_ids = {B, C} and B.parent_ids = C.parent_ids = {P}.
C14_SiblingsGetOnePhantom ==
    \A b \in Reals, c \in Reals :
        (/\ Built /\ b < c
         /\ Ids(prev) \cap Reals = {b, c}
         /\ Declarations = {<<"siblingOf", b, c>>})
           => \E p \in Ids(heap[Copy]) :
                 /\ {n \in Ids(heap[Copy]) : heap[Copy].nodes[n].is_phantom} = {p}
                 /\ Ids(heap[Copy]) = {b, c, p}
                 /\ heap[Copy].nodes[p].child_ids = {b, c}
                 /\ heap[Copy].nodes[b].parent_ids = {p}
                 /\ heap[Copy].nodes[c].parent_ids = {p}

\* such a build where each of the two declared the other as sibling
C14_Witness ==
    /\ Built
    /\ Cardinality(Ids(prev) \cap Reals) = 2
    /\ Len(calls) = 3
    /\ calls[1].args[2].title = "siblingOf"
    /\ calls[2].args[2].title = "siblingOf"
    /\ calls[1].args[1] = AspectTarget(calls[2].args[2])
    /\ calls[2].args[1] = AspectTarget(calls[1].args[2])
    /\ Cardinality({n \in Ids(heap[Copy]) : heap[Copy].nodes[n].is_phantom}) = 1

\* C15: during the build an aspect whose target id is not a node of the chart is
\* skipped: it adds no node, edge or relationship entry and the build does not
\* fail, so that the aspects after it are still applied.
C15_AbsentTargetIsSkipped ==
    (/\ calls # <<>> /\ Last(calls).op = "aspect"
     /\ AspectTarget(Last(calls).args[2]) \notin Ids(prev))
       => /\ exc = NoException
          /\ ret = None
          /\ heap[Copy] = prev

\* an aspect with an absent target was skipped and the aspect after it added
\* something to the chart
C15_Witness ==
    /\ Len(calls) = 3 /\ Last(calls).op = "aspect"
    /\ AspectTarget(calls[2].args[2]) \notin Ids(prev)
    /\ exc = NoException
    /\ heap[Copy] # prev

\* C21: a successful add_sibling removes no node that existed before the call
\* and removes no parent/child edge that existed before the call.
C21_AddSiblingRemovesNothing ==
    (Len(calls) = 1 /\ Returned("add_sibling")) =>
        /\ Ids(prev) \subseteq Ids(heap[Self])
        /\ \A n \in Ids(prev) :
              /\ prev.nodes[n].child_ids \subseteq heap[Self].nodes[n].child_ids
              /\ prev.nodes[n].parent_ids \subseteq heap[Self].nodes[n].parent_ids

(***************************************************************************)
(* Claims about the passes of postprocess                                  *)
(***************************************************************************)
\* the same call on the same chart with its nodes visited in increasing order
\* of their ids
VisitedAscending ==
    remove_redundant_phantoms([prev EXCEPT !.order = Ascending(Ids(prev))],
                              Last(calls).args.clear_relations,
                              Last(calls).args.first_child)

\* C22: the result of remove_redundant_phantoms does not depend on the
\* order in which the nodes are visited: on a chart with mutual edges, runs that
\* visit the phantoms in different orders end with the same surviving phantoms
\* and the same child set for each of them.
C22_VisitOrderIndependent ==
    (Len(calls) = 1 /\ Returned("remove_redundant_phantoms") /\ EdgesMutual(prev)) =>
        \E other \in {VisitedAscending} :
            /\ other.exc = NoException
            /\ PhantomsOf(other.g) = PhantomsOf(heap[Self])
            /\ \A p \in PhantomsOf(other.g) :
                  other.g.nodes[p].child_ids = heap[Self].nodes[p].child_ids

\* the real nodes of g are at least three, every two of them are the two
\* children of a phantom of their own, and g has no other phantom and no other
\* edge
PairwiseSiblings(g) ==
    /\ Cardinality(Ids(g) \ PhantomsOf(g)) >= 3
    /\ \A a \in Ids(g) \ PhantomsOf(g), b \in Ids(g) \ PhantomsOf(g) :
          a # b => Cardinality({p \in PhantomsOf(g) : g.nodes[p].child_ids = {a, b}}) = 1
    /\ \A p \in PhantomsOf(g) :
          /\ Cardinality(g.nodes[p].child_ids) = 2
          /\ g.nodes[p].child_ids \subseteq Ids(g) \ PhantomsOf(g)
          /\ g.nodes[p].parent_ids = {}
    /\ \A a \in Ids(g) \ PhantomsOf(g) :
          /\ g.nodes[a].child_ids = {}
          /\ g.nodes[a].parent_ids = {p \in PhantomsOf(g) : a \in g.nodes[p].child_ids}

\* C23: when k >= 3 real nodes are pairwise siblings, each pair through its own
\* phantom, and none has another parent, remove_redundant_phantoms followed by
\* remove_dead_edges leaves exactly one phantom, whose children are all k nodes,
\* and it is the only parent of each of them.
C23_PairwiseSiblingsConverge ==
    (Len(calls) = 2 /\ Returned("remove_dead_edges") /\ PairwiseSiblings(prev)) =>
        \E p \in PhantomsOf(heap[Self]) :
            /\ PhantomsOf(heap[Self]) = {p}
            /\ Ids(heap[Self]) = (Ids(prev) \ PhantomsOf(prev)) \cup {p}
            /\ heap[Self].nodes[p].child_ids = Ids(prev) \ PhantomsOf(prev)
            /\ \A a \in Ids(prev) \ PhantomsOf(prev) : heap[Self].nodes[a].parent_ids = {p}

\* the two passes have run on such a chart, the first without clearing the
\* references to the phantoms it removed
C23_Witness ==
    /\ Len(calls) = 2 /\ Returned("remove_dead_edges") /\ PairwiseSiblings(prev)
    /\ ~calls[1].args.clear_relations
    /\ Cardinality(PhantomsOf(prev)) = 3
    /\ Cardinality(PhantomsOf(heap[Self])) = 1

\* the real nodes of g
RealsOf(g) == Ids(g) \ PhantomsOf(g)

\* two nodes of g have a parent in common
HaveCommonParent(g, a, b) == g.nodes[a].parent_ids \cap g.nodes[b].parent_ids # {}

\* C26: on a chart with mutual edges and no dangling reference,
\* remove_redundant_phantoms removes no real node, changes no edge between two
\* real nodes, and leaves a common parent to any two real nodes that had one.
C26_PassKeepsSiblings ==
    (Len(calls) = 1 /\ Returned("remove_redundant_phantoms")
        /\ NoDanglingEdges(prev) /\ EdgesMutual(prev)) =>
        /\ RealsOf(heap[Self]) = RealsOf(prev)
        /\ \A a \in RealsOf(prev) :
              /\ heap[Self].nodes[a].child_ids \cap RealsOf(prev)
                    = prev.nodes[a].child_ids \cap RealsOf(prev)
              /\ heap[Self].nodes[a].parent_ids \cap RealsOf(prev)
                    = prev.nodes[a].parent_ids \cap RealsOf(prev)
              /\ heap[Self].nodes[a].relationships = prev.nodes[a].relationships
        /\ \A a \in RealsOf(prev), b \in RealsOf(prev) :
              (a # b /\ HaveCommonParent(prev, a, b)) => HaveCommonParent(heap[Self], a, b)

\* the number of invocations of _get_related_nodes so far
Rounds == Len(calls) - 1

\* the closure computation has returned and trim has run to its end
ClosureReturned ==
    /\ Len(calls) >= 2 /\ exc = NoException
    /\ RoundOf(Len(calls)).new_node_ids = {}

\* C24: on a chart without dangling references, cycles of parents and children
\* included, every round of the closure computation of trim after the first
\* starts from a frontier that is not empty and disjoint from the visited set,
\* the visited set grows strictly from round to round, and there are at most
\* as many rounds as nodes plus one, so the computation terminates.
C24_ClosureRoundsAreBounded ==
    (calls # <<>> /\ NoDanglingEdges(prev)) =>
        /\ \A i \in 3..Len(calls) :
              /\ calls[i].args.current_node_ids # {}
              /\ calls[i].args.current_node_ids \cap calls[i].args.res_set = {}
              /\ calls[i - 1].args.res_set \subseteq calls[i].args.res_set
              /\ calls[i - 1].args.res_set # calls[i].args.res_set
        /\ Rounds <= Cardinality(Ids(prev)) + 1

\* the closure went through three rounds or more on a chart where two nodes
\* are each the parent of the other, and trim returned
C24_Witness ==
    /\ ClosureReturned
    /\ Rounds >= 3
    /\ \E a \in Ids(prev) : \E b \in prev.nodes[a].child_ids : a \in prev.nodes[b].child_ids
    /\ \E i \in 2..Len(calls) : \E a \in calls[i].args.res_set :
          prev.nodes[a].child_ids \cap calls[i].args.current_node_ids # {}
          /\ prev.nodes[a].parent_ids \cap calls[i].args.current_node_ids # {}

\* no node of g is its own parent, child or relationship target
NoSelfReference(g) == \A n \in Ids(g) : n \notin References(g.nodes[n])

\* C25: from the empty chart, after any sequence of successful calls of
\* add_node (of a node without edges), add_child, add_sibling,
\* add_relationship, remove_relationship and remove_node (clear_relations
\* true), no reference is dangling, every parent/child edge and relationship
\* is mutual, and no node is its own parent, child or relationship target.
C25_MutatorsKeepChartWellFormed ==
    exc = NoException =>
        /\ NoDanglingEdges(heap[Self])
        /\ EdgesMutual(heap[Self])
        /\ NoSelfReference(heap[Self])

\* a node that had a parent and a relationship has been removed, and a phantom
\* is still in the chart
C25_Witness ==
    /\ Returned("remove_node")
    /\ \E n \in Ids(prev) \ Ids(heap[Self]) :
          prev.nodes[n].parent_ids # {} /\ Targets(prev.nodes[n]) # {}
    /\ PhantomsOf(heap[Self]) # {}

====
